---- MODULE Spec2Model ----
(***************************************************************************)
(* Model of the preflight worker of PrintPricePro_Preflight:               *)
(*   src/workers/preflight.worker.ts                                       *)
(* The file holds two builds of the worker: the current one (lines         *)
(* 1-1567: message listener with six commands, pdf-lib box checks, TAC     *)
(* heatmap) and an earlier one (lines 1569-2937: four commands, box checks *)
(* on the pdf.js page info).  The variable build says which one runs.      *)
(*                                                                         *)
(* Numbers: lengths are integers in millipoints (1/1000 pt) for boxes and  *)
(* points for page sizes; font sizes are tenths of a point; ratios (DPI,   *)
(* progress percentages) are kept as exact fractions [n, d].               *)
(***************************************************************************)
EXTENDS Integers, Sequences, FiniteSets, TLC

VARIABLES
    build,      \* "current" | "legacy": which build of the worker runs
    env,        \* which inputs the caller draws from: "protocol" | "analysis" | "score"
    cmd,        \* cmd[c]: the command message delivered as the c-th message event (NoCmd before)
    pc,         \* pc[c]: position of the listener invocation that handles message c
    page,       \* page[c]: loop variable pageIndex / i of that invocation (pages done so far)
    acc,        \* acc[c]: the accumulators and issue list of analyzePdf for that invocation
    out,        \* out[c]: the messages that invocation has posted, in order
    threw,      \* threw[c]: an exception reached the listener's catch (or the inner one)
    loads,      \* loads[c]: the uses made of the source bytes (slice, getDocument, PDFDocument.load), in order
    issueList,  \* argument of a direct buildResult call
    scoreResult,\* the PreflightResult that call returned
    booklet,    \* a createBooklet call: its input page count, the spreads drawn, its stage
    bleedRun,   \* addBleed applied to a document and again to its output: the pages of each
    canvas,     \* convertCanvasToGrayscale applied to a canvas and again: the image data of each
    input       \* input[c]: the caller's FileMeta object and ArrayBuffer that message c refers to

vars == <<build, env, cmd, pc, page, acc, out, threw, loads, issueList, scoreResult, booklet,
          bleedRun, canvas, input>>

\* ------------------------------------------------------------------ bounds
MaxCmds == 2        \* message events delivered to one worker context
MaxPages == 2       \* pages of a document
MaxIssues == 7      \* length of an issue list handed to buildResult directly
MaxSourcePages == 16 \* pages of a document handed to createBooklet
MaxPixels == 2      \* pixels of a canvas handed to convertCanvasToGrayscale
MaxLongPages == 11  \* pages of a document longer than the sample

\* ------------------------------------------------------------------ helpers
Max(a, b) == IF a >= b THEN a ELSE b
Min(a, b) == IF a <= b THEN a ELSE b
Abs(a) == IF a < 0 THEN -a ELSE a

\* ------------------------------------------------------------------ types.ts
ERROR == "error"
WARNING == "warning"
INFO == "info"
NoSeverity == "null"     \* issue.severity == null

\* getSeverity(issue): the explicit severity, else inferred from the tags
\* (/error|fatal|critical/i, then /warn/i), else info.
getSeverity(issue) ==
    IF issue.severity # NoSeverity THEN issue.severity
    ELSE IF \E t \in issue.tags : t \in {"error", "fatal", "critical"} THEN ERROR
    ELSE IF \E t \in issue.tags : t = "warn" THEN WARNING
    ELSE INFO

RECURSIVE ScoreLoop(_, _)
\* the loop "for (const it of issues) score -= ..." of buildResult
ScoreLoop(issues, score) ==
    IF issues = <<>> THEN score
    ELSE LET sev == getSeverity(Head(issues))
         IN ScoreLoop(Tail(issues),
                      IF sev = ERROR THEN score - 15
                      ELSE IF sev = WARNING THEN score - 7
                      ELSE score)

\* variant: the loop's value without the final Math.min / Math.max
ScoreOfMissingClamp(issues) == ScoreLoop(issues, 100)

\* "let score = 100; for (...) ...; score = Math.min(100, Math.max(0, Math.round(score)))"
\* (score is an integer here)
ScoreOf(issues) == Min(100, Max(0, ScoreLoop(issues, 100)))

SevCount(issues, sev) ==
    LET idx == {i \in 1..Len(issues) : getSeverity(issues[i]) = sev}
    IN Cardinality(idx)

RECURSIVE CatOrder(_, _)
\* keys of catMap in insertion order
CatOrder(issues, seen) ==
    IF issues = <<>> THEN seen
    ELSE LET c == Head(issues).category
         IN CatOrder(Tail(issues),
                     IF \E i \in 1..Len(seen) : seen[i] = c THEN seen ELSE Append(seen, c))

CatEntry(issues, c) ==
    LET of(sev) == Cardinality({i \in 1..Len(issues) :
                        issues[i].category = c /\ getSeverity(issues[i]) = sev})
    IN [category |-> c, errors |-> of(ERROR), warnings |-> of(WARNING), info |-> of(INFO)]

\* variant: the count looked up by the index idx instead of pageNumber = idx + 1
IssuesOnPageByIndex(issues, p) == Cardinality({i \in 1..Len(issues) : issues[i].page = p - 1})

IssuesOnPage(issues, p) == Cardinality({i \in 1..Len(issues) : issues[i].page = p})

\* buildResult(issues, pageCount, fileMeta)
buildResult(issues, pageCount, fileMeta) ==
    LET cats == CatOrder(issues, <<>>)
    IN [score |-> ScoreOf(issues),
        summary |-> IF Len(issues) = 0 THEN "No issues found"
                    ELSE "Found issues",
        errorCount |-> SevCount(issues, ERROR),
        warnCount |-> SevCount(issues, WARNING),
        infoCount |-> SevCount(issues, INFO),
        issues |-> issues,
        pages |-> [i \in 1..pageCount |->
                      [pageNumber |-> i, issuesCount |-> IssuesOnPage(issues, i)]],
        categorySummaries |-> [k \in 1..Len(cats) |-> CatEntry(issues, cats[k])],
        meta |-> [fileName |-> fileMeta.name, fileSize |-> fileMeta.size,
                  pageCount |-> pageCount]]

\* ------------------------------------------------------------------ documents
\* A page of the document model, as pdf.js / pdf-lib hand it to analyzePdf:
\*   w, h     viewport size at scale 1, in points
\*   boxes    [ok, media, trim, bleed]: ok = FALSE when a pdf-lib box getter
\*            throws; each box is [x, y, width, height] in millipoints
\*   info     "none": the pdf.js page info exposes no trimBox/bleedBox; "boxes": it does
\*   annots   [ok, list]: ok = FALSE when getAnnotations rejects; the subtypes
\*   text     [ok, items]: ok = FALSE when getTextContent rejects; the text items
\*            [fontName, fontSize, tr] (fontSize 0: not a number;
\*            tr: max(|tr[0]|, |tr[3]|)), sizes in tenths of a point
\*   ops      [ok, list]: ok = FALSE when getOperatorList rejects; the
\*            operator list, a sequence of [fn, args]
NoPage == 0              \* the null of a "first page" pointer
Infinity == 1000000      \* the initial value of worstImageDpi / minFontPt

Box(x, y, width, height) == [x |-> x, y |-> y, width |-> width, height |-> height]

\* Expand a box by g millipoints on every side.
Grow(b, g) == Box(b.x - g, b.y - g, b.width + 2 * g, b.height + 2 * g)

Rat(n, d) == [n |-> n, d |-> d]
RatLess(a, b) == a.n * b.d < b.n * a.d
RatLeq(a, b) == a.n * b.d <= b.n * a.d
RatMin(a, b) == IF RatLess(b, a) THEN b ELSE a

\* The font resources commonObjs.get(name) resolves: the raw name with its
\* subset prefix split off by /^([A-Z]{6})\+(.+)$/, and the Type 3 flag.
\* "missing": get returns nothing.
FontTable(name) ==
    CASE name = "g_d0_f1" -> [found |-> TRUE, subset |-> TRUE, baseName |-> "Times", isType3 |-> FALSE]
      [] name = "g_d0_f2" -> [found |-> TRUE, subset |-> FALSE, baseName |-> "Times", isType3 |-> FALSE]
      [] name = "g_d0_f3" -> [found |-> TRUE, subset |-> FALSE, baseName |-> "Glyphs", isType3 |-> TRUE]
      [] OTHER -> [found |-> FALSE, subset |-> FALSE, baseName |-> "", isType3 |-> FALSE]

\* Operator classes of the operator walk.
\* variant: the CMYK operators counted among the color-like operators
rgbOpsAndCmyk ==
    {"setFillRGBColor", "setStrokeRGBColor", "setFillRGBColorN", "setStrokeRGBColorN",
     "setFillCMYKColor", "setStrokeCMYKColor"}

rgbOps == {"setFillRGBColor", "setStrokeRGBColor", "setFillRGBColorN", "setStrokeRGBColorN"}
cmykOps == {"setFillCMYKColor", "setStrokeCMYKColor"}
grayOps == {"setFillGray", "setStrokeGray", "setGray"}
transparencyOps == {"setAlphaConstant", "setFillAlpha", "setStrokeAlpha", "setGState"}
imageOps == {"paintImageXObject", "paintInlineImageXObject", "paintImageXObjectRepeat"}

Op(fn) == [fn |-> fn, args |-> [kind |-> "none"]]
GStateOp(opFlag, opm) == [fn |-> "setGState", args |-> [kind |-> "gstate", op |-> opFlag, opm |-> opm]]
ImageOp(fn, pw, ph) == [fn |-> fn, args |-> [kind |-> "image", width |-> pw, height |-> ph]]
LineWidthOp(lw) == [fn |-> "setLineWidth", args |-> [kind |-> "width", w |-> lw]]

\* Annotation subtype classes.
multimediaSubtypes == {"Movie", "RichMedia", "Sound", "FileAttachment", "Screen", "3D"}
markupSubtypes == {"Text", "Highlight", "Underline", "Squiggly", "StrikeOut", "Caret", "Ink", "Popup", "Link"}

\* ------------------------------------------------------------------ analyzePdf: accumulators
InitAcc ==
    [firstWidth |-> 0, firstHeight |-> 0, hasMixedSizes |-> FALSE,
     anyColorLikeOps |-> FALSE, firstColorPage |-> NoPage,
     anyTransparencyOps |-> FALSE, firstTransparencyPage |-> NoPage,
     missingBleedInfo |-> FALSE, missingBleedPage |-> NoPage,
     insufficientBleed |-> FALSE, insufficientBleedPage |-> NoPage,
     type3Fonts |-> {}, fontsUsed |-> {},
     imageCount |-> 0, firstImagePage |-> NoPage,
     lowResImages |-> 0, firstLowResPage |-> NoPage,
     worstImageDpi |-> Rat(Infinity, 1), worstImagePage |-> NoPage,
     hasAnnotations |-> FALSE, firstAnnotationPage |-> NoPage,
     hasFormFields |-> FALSE, firstFormPage |-> NoPage,
     hasMultimedia |-> FALSE, firstMultimediaPage |-> NoPage,
     hasLayers |-> FALSE,
     tinyTextChunks |-> 0, smallTextChunks |-> 0,
     firstTinyTextPage |-> NoPage, firstSmallTextPage |-> NoPage,
     minFontPt |-> Infinity, minFontPage |-> NoPage,
     hasRGB |-> FALSE, hasCMYK |-> FALSE, hasGray |-> FALSE,
     hairlineStrokes |-> 0, firstHairlinePage |-> NoPage,
     overprintOps |-> 0, firstOverprintPage |-> NoPage,
     pdfLibDoc |-> FALSE,
     issues |-> <<>>]

\* variant: the pointer assigned on every page that triggers
FirstOverwritten(p, pageIndex) == pageIndex

\* "if (p === null) p = pageIndex"
First(p, pageIndex) == IF p = NoPage THEN pageIndex ELSE p

\* "p || 1"
OrOne(p) == IF p = NoPage THEN 1 ELSE p

Issue(id, pg, category, severity) ==
    [id |-> id, page |-> pg, category |-> category, severity |-> severity, tags |-> {}]

\* Layer detection: getOptionalContentConfig, "fails" | "none" | "groups"
LayerCheck(a, layers) ==
    IF layers = "groups" THEN [a EXCEPT !.hasLayers = TRUE] ELSE a

\* Page size: page 1 is the reference, a later page differing by more than 1 pt flags
SizeCheck(a, p, pageIndex) ==
    IF pageIndex = 1 THEN [a EXCEPT !.firstWidth = p.w, !.firstHeight = p.h]
    ELSE IF Abs(p.w - a.firstWidth) > 1 \/ Abs(p.h - a.firstHeight) > 1
         THEN [a EXCEPT !.hasMixedSizes = TRUE]
         ELSE a


\* ------------------------------------------------------------------ analyzePdf: box checks
\* isZero(n): Math.abs(n) < 0.1 (pt)
isZero(n) == Abs(n) < 100

\* mmFromPt(g) < 2.9 for g millipoints: g / 1000 * 25.4 / 72 < 2.9
BelowMinBleed(g) == g * 254 < 2088000

Min4(a, b, c, d) == Min(Min(a, b), Min(c, d))

\* Current build, pdf-lib page available: the four gaps between trim and bleed box.
LibBoxCheck(a, p, pageIndex) ==
    IF ~p.boxes.ok THEN a          \* caught: 'pdf-lib box check error'
    ELSE
      LET trimBox == p.boxes.trim
          bleedBox == p.boxes.bleed
          bleedLeft == trimBox.x - bleedBox.x
          bleedBottom == trimBox.y - bleedBox.y
          bleedRight == (bleedBox.x + bleedBox.width) - (trimBox.x + trimBox.width)
          bleedTop == (bleedBox.y + bleedBox.height) - (trimBox.y + trimBox.height)
          noBleedDefined == isZero(bleedLeft) /\ isZero(bleedBottom)
                            /\ isZero(bleedRight) /\ isZero(bleedTop)
      IN IF noBleedDefined
         THEN [a EXCEPT !.missingBleedInfo = TRUE,
                        !.missingBleedPage = First(a.missingBleedPage, pageIndex)]
         ELSE IF BelowMinBleed(Min4(bleedLeft, bleedBottom, bleedRight, bleedTop))
              THEN [a EXCEPT !.insufficientBleed = TRUE,
                             !.insufficientBleedPage = First(a.insufficientBleedPage, pageIndex)]
              ELSE a

\* Current build, pdf-lib load failed: only the presence of trimBox/bleedBox in
\* the pdf.js page info is looked at.
FallbackBoxCheck(a, p, pageIndex) ==
    IF p.info = "none"
    THEN [a EXCEPT !.missingBleedInfo = TRUE,
                   !.missingBleedPage = First(a.missingBleedPage, pageIndex)]
    ELSE a

BoxCheck(a, p, pageIndex) ==
    IF a.pdfLibDoc THEN LibBoxCheck(a, p, pageIndex) ELSE FallbackBoxCheck(a, p, pageIndex)

\* Earlier build: boxes from the pdf.js page info, as [x0, y0, x1, y1]; an issue
\* is pushed inside the page loop when the trim box leaves the media box.
LegacyBoxCheck(a, p, pageIndex) ==
    IF p.info = "none"
    THEN [a EXCEPT !.missingBleedInfo = TRUE,
                   !.missingBleedPage = First(a.missingBleedPage, pageIndex)]
    ELSE
      LET t == p.boxes.trim
          b == p.boxes.bleed
          m == p.boxes.media
          tx0 == t.x  ty0 == t.y  tx1 == t.x + t.width  ty1 == t.y + t.height
          bx0 == b.x  by0 == b.y  bx1 == b.x + b.width  by1 == b.y + b.height
          mx0 == m.x  my0 == m.y  mx1 == m.x + m.width  my1 == m.y + m.height
          minBleed == Min4(tx0 - bx0, ty0 - by0, bx1 - tx1, by1 - ty1)
          a1 == IF BelowMinBleed(minBleed)
                THEN [a EXCEPT !.insufficientBleed = TRUE,
                               !.insufficientBleedPage = First(a.insufficientBleedPage, pageIndex)]
                ELSE a
      IN IF tx0 < mx0 - 100 \/ ty0 < my0 - 100 \/ tx1 > mx1 + 100 \/ ty1 > my1 + 100
         THEN [a1 EXCEPT !.issues = Append(a1.issues,
                  Issue("trim-outside-mediabox", pageIndex, "bleed_margins", WARNING))]
         ELSE a1

\* ------------------------------------------------------------------ analyzePdf: annotations
AnnotStep(a, subtype, pageIndex) ==
    LET a1 == IF subtype = "Widget"
              THEN [a EXCEPT !.hasFormFields = TRUE,
                             !.firstFormPage = First(a.firstFormPage, pageIndex)]
              ELSE a
        a2 == IF subtype \in multimediaSubtypes
              THEN [a1 EXCEPT !.hasMultimedia = TRUE,
                              !.firstMultimediaPage = First(a1.firstMultimediaPage, pageIndex)]
              ELSE a1
    IN IF subtype \in markupSubtypes
       THEN [a2 EXCEPT !.hasAnnotations = TRUE,
                       !.firstAnnotationPage = First(a2.firstAnnotationPage, pageIndex)]
       ELSE a2

RECURSIVE AnnotLoop(_, _, _)
AnnotLoop(a, list, pageIndex) ==
    IF list = <<>> THEN a
    ELSE AnnotLoop(AnnotStep(a, Head(list), pageIndex), Tail(list), pageIndex)

AnnotWalk(a, p, pageIndex) ==
    IF ~p.annots.ok THEN a ELSE AnnotLoop(a, p.annots.list, pageIndex)


\* ------------------------------------------------------------------ analyzePdf: fonts and text size
\* fontSizePt = Math.abs((typeof fontSize === 'number' ? fontSize : 0) || fromTransform)
FontSizePt(item) == Abs(IF item.fontSize # 0 THEN item.fontSize ELSE item.tr)

TextItemStep(a, item, pageIndex) ==
    LET s == FontSizePt(item)
    IN IF ~(s > 0 /\ s < Infinity) THEN a
       ELSE
         LET a1 == IF s < a.minFontPt
                   THEN [a EXCEPT !.minFontPt = s, !.minFontPage = pageIndex]
                   ELSE a
         IN IF s < 60
            THEN [a1 EXCEPT !.tinyTextChunks = a1.tinyTextChunks + 1,
                            !.firstTinyTextPage = First(a1.firstTinyTextPage, pageIndex)]
            ELSE IF s < 80
                 THEN [a1 EXCEPT !.smallTextChunks = a1.smallTextChunks + 1,
                                 !.firstSmallTextPage = First(a1.firstSmallTextPage, pageIndex)]
                 ELSE a1

RECURSIVE TextLoop(_, _, _)
TextLoop(a, items, pageIndex) ==
    IF items = <<>> THEN a
    ELSE TextLoop(TextItemStep(a, Head(items), pageIndex), Tail(items), pageIndex)

\* fontsUsed.set(baseName, {subset: existing.subset || subset, type3: existing.type3 || isType3})
FontStep(a, name) ==
    LET font == FontTable(name)
    IN IF ~font.found THEN a
       ELSE
         LET old == {f \in a.fontsUsed : f.baseName = font.baseName}
             existing == IF old = {} THEN [subset |-> FALSE, type3 |-> FALSE]
                         ELSE CHOOSE f \in old : TRUE
             entry == [baseName |-> font.baseName,
                       subset |-> existing.subset \/ font.subset,
                       type3 |-> existing.type3 \/ font.isType3]
         IN [a EXCEPT !.type3Fonts = IF font.isType3 THEN @ \cup {font.baseName} ELSE @,
                      !.fontsUsed = (@ \ old) \cup {entry}]

RECURSIVE FontLoop(_, _)
\* the loop over pageFontNames, in the order the names were first seen
FontLoop(a, names) ==
    IF names = <<>> THEN a
    ELSE FontLoop(FontStep(a, Head(names)), Tail(names))

TextWalk(a, p, pageIndex) ==
    IF ~p.text.ok THEN a
    ELSE LET names == [i \in 1..Len(p.text.items) |-> p.text.items[i].fontName]
         IN FontLoop(TextLoop(a, p.text.items, pageIndex), names)

\* ------------------------------------------------------------------ analyzePdf: operator walk
\* DPI of an image of pw x ph pixels on a page of w x h points:
\* min(pw / (w / 72), ph / (h / 72)), as an exact fraction
ImageDpi(pw, ph, w, h) == RatMin(Rat(pw * 72, w), Rat(ph * 72, h))

\* variant: the threshold test written "minDpi <= 150"
ImageStepInclusive(a, args, p, pageIndex) ==
    LET a1 == [a EXCEPT !.imageCount = a.imageCount + 1,
                        !.firstImagePage = First(a.firstImagePage, pageIndex)]
    IN IF args.kind # "image" THEN a1
       ELSE IF ~(args.width > 0 /\ args.height > 0) THEN a1
       ELSE
         LET minDpi == ImageDpi(args.width, args.height, p.w, p.h)
             a2 == IF RatLess(minDpi, a1.worstImageDpi)
                   THEN [a1 EXCEPT !.worstImageDpi = minDpi, !.worstImagePage = pageIndex]
                   ELSE a1
         IN IF RatLeq(minDpi, Rat(150, 1))
            THEN [a2 EXCEPT !.lowResImages = a2.lowResImages + 1,
                            !.firstLowResPage = First(a2.firstLowResPage, pageIndex)]
            ELSE a2

\* An image-paint operator: counted, and when its arguments carry a pixel size
\* its DPI on the page is estimated and compared with the worst one and with 150.
ImageStep(a, args, p, pageIndex) ==
    LET a1 == [a EXCEPT !.imageCount = a.imageCount + 1,
                        !.firstImagePage = First(a.firstImagePage, pageIndex)]
    IN IF args.kind # "image" THEN a1
       ELSE IF ~(args.width > 0 /\ args.height > 0) THEN a1
       ELSE
         LET minDpi == ImageDpi(args.width, args.height, p.w, p.h)
             a2 == IF RatLess(minDpi, a1.worstImageDpi)
                   THEN [a1 EXCEPT !.worstImageDpi = minDpi, !.worstImagePage = pageIndex]
                   ELSE a1
         IN IF RatLess(minDpi, Rat(150, 1))
            THEN [a2 EXCEPT !.lowResImages = a2.lowResImages + 1,
                            !.firstLowResPage = First(a2.firstLowResPage, pageIndex)]
            ELSE a2

TransparencyStep(a, op, pageIndex) ==
    LET a1 == [a EXCEPT !.anyTransparencyOps = TRUE]
        a2 == IF op.fn = "setGState" /\ op.args.kind = "gstate"
                 /\ (op.args.op = TRUE \/ op.args.opm = 1)
              THEN [a1 EXCEPT !.overprintOps = a1.overprintOps + 1,
                              !.firstOverprintPage = First(a1.firstOverprintPage, pageIndex)]
              ELSE a1
    IN [a2 EXCEPT !.firstTransparencyPage = First(a2.firstTransparencyPage, pageIndex)]

OpStep(a, op, p, pageIndex) ==
    LET a1 == IF op.fn \in rgbOps
              THEN [a EXCEPT !.anyColorLikeOps = TRUE, !.hasRGB = TRUE,
                             !.firstColorPage = First(a.firstColorPage, pageIndex)]
              ELSE a
        a2 == IF op.fn \in cmykOps THEN [a1 EXCEPT !.hasCMYK = TRUE] ELSE a1
        a3 == IF op.fn \in grayOps THEN [a2 EXCEPT !.hasGray = TRUE] ELSE a2
        a4 == IF op.fn \in transparencyOps THEN TransparencyStep(a3, op, pageIndex) ELSE a3
        a5 == IF op.fn \in imageOps THEN ImageStep(a4, op.args, p, pageIndex) ELSE a4
    IN IF op.fn = "setLineWidth" /\ op.args.kind = "width"
          /\ op.args.w > 0 /\ op.args.w < 250
       THEN [a5 EXCEPT !.hairlineStrokes = a5.hairlineStrokes + 1,
                       !.firstHairlinePage = First(a5.firstHairlinePage, pageIndex)]
       ELSE a5

RECURSIVE OpLoop(_, _, _, _)
OpLoop(a, list, p, pageIndex) ==
    IF list = <<>> THEN a
    ELSE OpLoop(OpStep(a, Head(list), p, pageIndex), Tail(list), p, pageIndex)

OpsWalk(a, p, pageIndex) ==
    IF ~p.ops.ok THEN a ELSE OpLoop(a, p.ops.list, p, pageIndex)

\* One iteration of the page loop of analyzePdf (current build).
AnalyzePage(a, p, pageIndex) ==
    OpsWalk(TextWalk(AnnotWalk(BoxCheck(SizeCheck(a, p, pageIndex), p, pageIndex),
                               p, pageIndex), p, pageIndex), p, pageIndex)

\* One iteration of the page loop of analyzePdf (earlier build).
LegacyAnalyzePage(a, p, pageIndex) ==
    OpsWalk(TextWalk(AnnotWalk(LegacyBoxCheck(SizeCheck(a, p, pageIndex), p, pageIndex),
                               p, pageIndex), p, pageIndex), p, pageIndex)


\* ------------------------------------------------------------------ analyzePdf: rules
\* isClose(mmFromPt(pt), mm): |pt * 25.4 / 72 - mm| < 3
IsCloseMm(pt, mm) == Abs(pt * 254 - mm * 720) < 3 * 720

\* classifySize(widthPt, heightPt)
classifySize(widthPt, heightPt) ==
    LET w == Min(widthPt, heightPt)
        h == Max(widthPt, heightPt)
    IN IF IsCloseMm(w, 148) /\ IsCloseMm(h, 210) THEN "A5"
       ELSE IF IsCloseMm(w, 170) /\ IsCloseMm(h, 240) THEN "170 x 240 mm"
       ELSE IF IsCloseMm(w, 210) /\ IsCloseMm(h, 297) THEN "A4"
       ELSE IF IsCloseMm(w, 210) /\ IsCloseMm(h, 280) THEN "US Letter-ish"
       ELSE "custom"

\* "if (cond) issues.push(issue)"
PushIf(issues, cond, issue) == IF cond THEN Append(issues, issue) ELSE issues

\* variant: the RGB test placed before the mixed test
ColorSpaceRuleRgbFirst(issues, a) ==
    IF a.hasRGB
    THEN Append(issues, Issue("rgb-only-content", OrOne(a.firstColorPage), "color", INFO))
    ELSE IF a.hasRGB /\ a.hasCMYK
    THEN Append(issues, Issue("mixed-rgb-cmyk", OrOne(a.firstColorPage), "color", WARNING))
    ELSE IF a.hasCMYK /\ ~a.hasGray
    THEN Append(issues, Issue("cmyk-only-content", 1, "color", INFO))
    ELSE IF ~a.hasCMYK /\ a.hasGray
    THEN Append(issues, Issue("grayscale-only-content", 1, "color", INFO))
    ELSE issues

\* The color-space rule (mixed / RGB-only / CMYK-only / Gray-only), an if-else chain.
ColorSpaceRule(issues, a) ==
    IF a.hasRGB /\ a.hasCMYK
    THEN Append(issues, Issue("mixed-rgb-cmyk", OrOne(a.firstColorPage), "color", WARNING))
    ELSE IF a.hasRGB /\ ~a.hasCMYK
    THEN Append(issues, Issue("rgb-only-content", OrOne(a.firstColorPage), "color", INFO))
    ELSE IF a.hasCMYK /\ ~a.hasRGB /\ ~a.hasGray
    THEN Append(issues, Issue("cmyk-only-content", 1, "color", INFO))
    ELSE IF ~a.hasRGB /\ ~a.hasCMYK /\ a.hasGray
    THEN Append(issues, Issue("grayscale-only-content", 1, "color", INFO))
    ELSE issues

\* variant: the two text-size rules tested one after the other, without "else"
TextSizeRuleBoth(issues, a) ==
    LET i1 == IF a.tinyTextChunks > 0
              THEN Append(issues, Issue("text-too-small",
                              IF a.firstTinyTextPage # NoPage THEN a.firstTinyTextPage
                              ELSE OrOne(a.minFontPage), "fonts", WARNING))
              ELSE issues
    IN IF a.smallTextChunks > 0
       THEN Append(i1, Issue("text-small",
                       IF a.firstSmallTextPage # NoPage THEN a.firstSmallTextPage
                       ELSE OrOne(a.minFontPage), "fonts", INFO))
       ELSE i1

\* The text-size rule: tiny text supersedes small text.
TextSizeRule(issues, a) ==
    IF a.tinyTextChunks > 0
    THEN Append(issues, Issue("text-too-small",
                    IF a.firstTinyTextPage # NoPage THEN a.firstTinyTextPage
                    ELSE OrOne(a.minFontPage), "fonts", WARNING))
    ELSE IF a.smallTextChunks > 0
    THEN Append(issues, Issue("text-small",
                    IF a.firstSmallTextPage # NoPage THEN a.firstSmallTextPage
                    ELSE OrOne(a.minFontPage), "fonts", INFO))
    ELSE issues

\* Everything analyzePdf pushes after the page loop, in rule order.
GenerateIssues(a, fileMeta) ==
    LET i1 == PushIf(a.issues, a.hasMixedSizes, Issue("mixed-page-sizes", 1, "page_setup", WARNING))
        i2 == PushIf(i1, a.firstWidth # 0 /\ a.firstHeight # 0
                         /\ classifySize(a.firstWidth, a.firstHeight) = "custom",
                     Issue("non-standard-size", 1, "metadata", INFO))
        i3 == IF a.anyColorLikeOps
              THEN Append(i2, Issue("color-content-detected", OrOne(a.firstColorPage), "color", INFO))
              ELSE Append(i2, Issue("no-explicit-color-ops", 1, "color", INFO))
        i4 == PushIf(i3, a.anyTransparencyOps,
                     Issue("transparency-detected", OrOne(a.firstTransparencyPage), "transparency", WARNING))
        i5 == PushIf(i4, a.missingBleedInfo,
                     Issue("missing-bleed-info", OrOne(a.missingBleedPage), "bleed_margins", WARNING))
        i6 == PushIf(i5, a.insufficientBleed,
                     Issue("insufficient-bleed", OrOne(a.insufficientBleedPage), "bleed_margins", WARNING))
        i7 == PushIf(i6, a.type3Fonts # {}, Issue("type3-fonts-present", 1, "fonts", WARNING))
        i8 == PushIf(i7, a.fontsUsed # {}, Issue("fonts-used-summary", 1, "fonts", INFO))
        i9 == TextSizeRule(i8, a)
        i10 == ColorSpaceRule(i9, a)
        i11 == PushIf(i10, a.hairlineStrokes > 0,
                      Issue("hairline-strokes", OrOne(a.firstHairlinePage), "images", WARNING))
        i12 == PushIf(i11, a.overprintOps > 0,
                      Issue("overprint-detected", OrOne(a.firstOverprintPage), "color", INFO))
        i13 == PushIf(i12, a.lowResImages > 0,
                      Issue("low-resolution-images",
                            IF a.firstLowResPage # NoPage THEN a.firstLowResPage
                            ELSE OrOne(a.worstImagePage), "images", WARNING))
        i14 == PushIf(i13, a.imageCount = 0, Issue("no-images-detected", 1, "images", INFO))
        i15 == PushIf(i14, a.hasAnnotations,
                      Issue("annotations-present", OrOne(a.firstAnnotationPage), "annotations", WARNING))
        i16 == PushIf(i15, a.hasFormFields,
                      Issue("form-fields-present", OrOne(a.firstFormPage), "form_fields", WARNING))
        i17 == PushIf(i16, a.hasMultimedia,
                      Issue("multimedia-content", OrOne(a.firstMultimediaPage), "multimedia", ERROR))
        i18 == PushIf(i17, a.hasLayers, Issue("layers-detected", 1, "layers", INFO))
    IN PushIf(i18, fileMeta.size > 150 * 1024 * 1024,
              Issue("very-large-file", 1, "metadata", WARNING))

\* variant: no early return, the rules run on the untouched accumulators
EmptyDocumentFallsThrough(fileMeta) ==
    buildResult(GenerateIssues(InitAcc, fileMeta), 0, fileMeta)

\* The early return of analyzePdf for a document without pages.
EmptyDocumentResult(fileMeta) ==
    buildResult(<<Issue("empty-document", 1, "metadata", ERROR)>>, 0, fileMeta)

\* sampleCount = Math.min(pageCount, 10)
SampleLimit == 10

\* variant: every page of the document is walked
SampleCountAll(pageCount) == pageCount

SampleCount(pageCount) == Min(pageCount, SampleLimit)


\* ------------------------------------------------------------------ inputs
Plain == [ok |-> TRUE, list |-> <<>>]
NoText == [ok |-> TRUE, items |-> <<>>]
Failing == [ok |-> FALSE, list |-> <<>>]

\* A4 media box without bleed, in millipoints
A4Box == Box(0, 0, 595000, 842000)

\* An A4 page without content, annotations or bleed.
BasePage ==
    [w |-> 595, h |-> 842, libPage |-> TRUE,
     boxes |-> [ok |-> TRUE, media |-> A4Box, trim |-> A4Box, bleed |-> A4Box], info |-> "none",
     annots |-> Plain, text |-> NoText, ops |-> Plain]

OpsPage(list) == [BasePage EXCEPT !.ops = [ok |-> TRUE, list |-> list]]

\* The pages a document of the analysis inputs is made of: the base page, and
\* pages that differ from it in one aspect.
AnalysisPages ==
    { BasePage,
      OpsPage(<<Op("setFillRGBColor")>>),
      OpsPage(<<Op("setStrokeCMYKColor")>>),
      OpsPage(<<Op("setFillGray")>>),
      OpsPage(<<Op("setStrokeRGBColor"), Op("setFillCMYKColor")>>),
      OpsPage(<<GStateOp(TRUE, 0), LineWidthOp(100)>>),
      OpsPage(<<ImageOp("paintImageXObject", 300, 400), Op("setFillAlpha")>>),
      [BasePage EXCEPT !.ops = [ok |-> FALSE, list |-> <<Op("setFillRGBColor")>>]],
      [BasePage EXCEPT !.w = 400, !.h = 600,
                       !.annots = [ok |-> TRUE, list |-> <<"Widget", "Movie", "Link">>]],
      [BasePage EXCEPT !.annots = Failing,
                       !.boxes = [ok |-> TRUE, media |-> A4Box, trim |-> A4Box,
                                  bleed |-> Grow(A4Box, 5669)]],
      [BasePage EXCEPT !.text = [ok |-> TRUE, items |->
                          <<[fontName |-> "g_d0_f1", fontSize |-> 55, tr |-> 55],
                            [fontName |-> "g_d0_f3", fontSize |-> 0, tr |-> 70]>>]],
      [BasePage EXCEPT !.text = [ok |-> TRUE, items |->
                          <<[fontName |-> "g_d0_f2", fontSize |-> 79, tr |-> 10],
                            [fontName |-> "g_d0_f2", fontSize |-> 60, tr |-> 10],
                            [fontName |-> "g_d0_f2", fontSize |-> 80, tr |-> 10]>>],
                       !.boxes = [ok |-> FALSE, media |-> A4Box, trim |-> A4Box, bleed |-> A4Box]],
      [BasePage EXCEPT !.info = "boxes",
                       !.boxes = [ok |-> TRUE, media |-> A4Box, trim |-> Grow(A4Box, 1000),
                                  bleed |-> Grow(A4Box, 9921)]],
      [BasePage EXCEPT !.boxes = [ok |-> TRUE, media |-> Grow(A4Box, 9921), trim |-> A4Box,
                                  bleed |-> Grow(A4Box, 9921)]],
      [BasePage EXCEPT !.w = 432, !.h = 576,
                       !.ops = [ok |-> TRUE, list |-> <<ImageOp("paintImageXObject", 900, 1200)>>]],
      [BasePage EXCEPT !.libPage = FALSE]
    }

RECURSIVE SeqsUpTo(_, _)
\* all sequences over S of length <= n
SeqsUpTo(S, n) ==
    IF n = 0 THEN {<<>>}
    ELSE LET shorter == SeqsUpTo(S, n - 1)
         IN shorter \cup {Append(s, x) : s \in {t \in shorter : Len(t) = n - 1}, x \in S}

Doc(pages, libLoad, layers) ==
    [numPages |-> Len(pages), pages |-> pages, libLoad |-> libLoad, layers |-> layers]

\* Documents longer than the sample: pages with 3.5 mm of bleed and nothing else,
\* but for the pages j and k, each of which is one of two pages that trigger
\* the rules keeping a first-page pointer.
LongDocs ==
    LET bled == [BasePage EXCEPT !.boxes = [ok |-> TRUE, media |-> Grow(A4Box, 9921),
                                            trim |-> A4Box, bleed |-> Grow(A4Box, 9921)]]
        marked ==
          { [BasePage EXCEPT
               !.ops = [ok |-> TRUE, list |->
                          <<Op("setFillRGBColor"), Op("setFillAlpha"), GStateOp(TRUE, 0),
                            LineWidthOp(100), ImageOp("paintImageXObject", 300, 400)>>],
               !.text = [ok |-> TRUE, items |->
                          <<[fontName |-> "g_d0_f1", fontSize |-> 55, tr |-> 55]>>]],
            [bled EXCEPT
               !.boxes = [ok |-> TRUE, media |-> A4Box, trim |-> A4Box,
                          bleed |-> Grow(A4Box, 5669)],
               !.annots = [ok |-> TRUE, list |-> <<"Widget", "Movie", "Link">>],
               !.text = [ok |-> TRUE, items |->
                          <<[fontName |-> "g_d0_f2", fontSize |-> 70, tr |-> 70]>>]] }
    IN UNION { { Doc([i \in 1..n |-> IF i = j THEN x ELSE IF i = k THEN y ELSE bled],
                     TRUE, "none") :
                 j \in 1..n, k \in 1..n, x \in marked, y \in marked } :
               n \in (SampleLimit - 1)..MaxLongPages }

AnalysisDocs ==
    {Doc(ps, lib, ly) : ps \in SeqsUpTo(AnalysisPages, MaxPages),
                        lib \in BOOLEAN, ly \in {"none", "groups", "fails"}}
    \cup LongDocs

\* The documents of the protocol inputs: what a page holds does not matter
\* there, only whether its boxes can be read (addBleed reads them).
ProtocolDocs ==
    {Doc(ps, TRUE, "none") :
       ps \in SeqsUpTo({ BasePage,
                         [BasePage EXCEPT !.boxes = [ok |-> FALSE, media |-> A4Box,
                                                     trim |-> A4Box, bleed |-> A4Box]] },
                       MaxPages)}

FileMeta(name, size) == [name |-> name, size |-> size, type |-> "application/pdf"]


NoIndex == -1    \* pageIndex absent from the message (undefined)

NoMinDpi == -1   \* minDpi absent from the message (undefined)

\* minDpi is in tenths of a dot per inch
Command(type, doc, fileMeta, pageIndex, minDpi) ==
    [type |-> type, doc |-> doc, fileMeta |-> fileMeta, pageIndex |-> pageIndex,
     minDpi |-> minDpi]

NoCmd == Command("none", Doc(<<>>, TRUE, "none"), FileMeta(<<>>, 0), NoIndex, NoMinDpi)

\* The objects a message refers to, as the caller sees them: the fields of its
\* FileMeta object, and whether its ArrayBuffer has been detached.
Input(fileMeta) == [fileMeta |-> fileMeta, detached |-> FALSE]

\* "runs": documents of pages with two operators or two text runs, for two
\* analyses in flight at once.  "recheck": the documents in the buffers fixBleed
\* has returned so far; pdf-lib, which wrote them, loads them.
Docs(e) ==
    IF e = "analysis" THEN AnalysisDocs
    ELSE IF e = "runs"
    THEN {Doc(ps, TRUE, "none") :
            ps \in SeqsUpTo({p \in AnalysisPages : Len(p.ops.list) = 2 \/ Len(p.text.items) = 2},
                            MaxPages)}
    ELSE IF e = "recheck"
    THEN UNION { { Doc(out[b][i].docPages, TRUE, "none") :
                     i \in {j \in 1..Len(out[b]) : /\ out[b][j].type = "transformResult"
                                                   /\ out[b][j].operation = "fixBleed"} } :
                 b \in 1..MaxCmds }
    ELSE ProtocolDocs

\* A file name is the sequence of its parts; the last part may be the extension.
Metas(e) ==
    IF e = "analysis"
    THEN {FileMeta(<<"book", ".pdf">>, 1000), FileMeta(<<"book", ".pdf">>, 157286401)}
    ELSE IF e = "transform"
    THEN {FileMeta(n, 1000) :
            n \in {<<"book", ".pdf">>, <<"book", ".PDF">>, <<"book", ".Pdf">>, <<"book">>,
                   <<"book", ".pdf", ".bak">>}}
    ELSE IF e = "recheck"
    THEN UNION { { out[b][i].fileMeta :
                     i \in {j \in 1..Len(out[b]) : /\ out[b][j].type = "transformResult"
                                                   /\ out[b][j].operation = "fixBleed"} } :
                 b \in 1..MaxCmds }
    ELSE {FileMeta(<<"book", ".pdf">>, 1000)}

\* values of minDpi a caller sends: none, 149.5, 150, 300.4
MinDpis(e) == IF e = "transform" THEN {NoMinDpi, 1495, 1500, 3004} ELSE {NoMinDpi}

\* message events one worker context may get
Limit(e) == IF e \in {"protocol", "runs", "recheck"} THEN MaxCmds ELSE 1

CmdIds == 1..MaxCmds


\* ------------------------------------------------------------------ messages out
Msg(type) ==
    [type |-> type, operation |-> "", progress |-> Rat(0, 1), pageIndex |-> 0,
     fileMeta |-> FileMeta(<<>>, 0), issues |-> <<>>, score |-> 0, pages |-> <<>>,
     pageCount |-> 0, docPages |-> <<>>, byteLength |-> 0, message |-> "",
     summary |-> "", categorySummaries |-> <<>>]

Progress(r) == [Msg("analysisProgress") EXCEPT !.progress = r]

AnalysisResult(r) ==
    [Msg("analysisResult") EXCEPT !.issues = r.issues, !.score = r.score,
                                  !.summary = r.summary,
                                  !.categorySummaries = r.categorySummaries,
                                  !.pages = r.pages, !.pageCount = r.meta.pageCount,
                                  !.fileMeta = FileMeta(r.meta.fileName, r.meta.fileSize)]

\* docPages: the pages of the document in the returned buffer, a slice of
\* byteLength bytes
TransformResult(op, fileMeta, docPages, byteLength) ==
    [Msg("transformResult") EXCEPT !.operation = op, !.fileMeta = fileMeta,
                                   !.docPages = docPages, !.byteLength = byteLength]

TransformError(op) == [Msg("transformError") EXCEPT !.operation = op]

TerminalTypes ==
    {"analysisResult", "analysisError", "transformResult", "transformError",
     "tacHeatmapResult", "tacHeatmapError", "renderPageResult", "renderError"}

\* variant: the tags of the two raster pipelines exchanged
OperationSwapped(type) ==
    IF type = "convertToGrayscale" THEN "upscaleImages"
    ELSE IF type = "upscaleLowResImages" THEN "grayscale"
    ELSE "fixBleed"

\* The operation tag of a transform command.
OperationOf(type) ==
    IF type = "convertToGrayscale" THEN "grayscale"
    ELSE IF type = "upscaleLowResImages" THEN "upscaleImages"
    ELSE "fixBleed"

\* variant: the catch of the earlier build (analysisError or transformError only)
CatchMessageTwoWay(type) ==
    IF type = "analyze" THEN <<Msg("analysisError")>>
    ELSE <<TransformError(OperationOf(type))>>

\* The message the listener's catch block posts for a command of this type
\* (none for a type it does not know).
CatchMessage(type) ==
    IF type = "analyze" THEN <<Msg("analysisError")>>
    ELSE IF type = "tacHeatmap" THEN <<Msg("tacHeatmapError")>>
    ELSE IF type = "renderPageAsImage" THEN <<Msg("renderError")>>
    ELSE IF type \in {"convertToGrayscale", "upscaleLowResImages", "fixBleed"}
         THEN <<TransformError(OperationOf(type))>>
    ELSE <<>>

\* name.replace(/\.pdf$/i, '') + suffix
Renamed(name, suffix) ==
    LET stem == IF Len(name) > 0 /\ name[Len(name)] \in {".pdf", ".PDF", ".Pdf"}
                THEN SubSeq(name, 1, Len(name) - 1) ELSE name
    IN Append(stem, suffix)

DefaultMinDpi == 1500

DefaultBleedMm == 3

\* Math.round(msg.minDpi ?? 150), minDpi in tenths
RoundedMinDpi(minDpi) ==
    ((IF minDpi = NoMinDpi THEN DefaultMinDpi ELSE minDpi) + 5) \div 10

\* the suffix each pipeline gives the name; the listener calls addBleed
\* without bleedMm, which is 3 then
SuffixOf(type, minDpi) ==
    IF type = "convertToGrayscale" THEN "_grayscale.pdf"
    ELSE IF type = "upscaleLowResImages"
         THEN "_upscaled_" \o ToString(RoundedMinDpi(minDpi)) \o "dpi.pdf"
    ELSE "_bleed_" \o ToString(DefaultBleedMm) \o "mm.pdf"

\* newMeta = {...fileMeta, name: ..., size: outBytes.byteLength}
NewMeta(fileMeta, type, minDpi, byteLength) ==
    [fileMeta EXCEPT !.name = Renamed(fileMeta.name, SuffixOf(type, minDpi)),
                     !.size = byteLength]

\* byte lengths a saved document may have
OutLengths == {2048, 1000}

\* pdf.js getPage(n) rejects ("Invalid page request") unless 1 <= n <= numPages
GetPageRejects(n, numPages) == n < 1 \/ n > numPages

\* ------------------------------------------------------------------ the listener
\* A rejected await inside the try block: the catch posts the error of the
\* command's type and the invocation ends.
Throw(c) ==
    /\ out' = [out EXCEPT ![c] = @ \o CatchMessage(cmd[c].type)]
    /\ threw' = [threw EXCEPT ![c] = TRUE]
    /\ pc' = [pc EXCEPT ![c] = "done"]

\* A call inside the try block throws the error e: the message the catch posts
\* carries err.message.
ThrowError(c, e) ==
    /\ out' = [out EXCEPT ![c] = @ \o [i \in 1..Len(CatchMessage(cmd[c].type)) |->
                                        [CatchMessage(cmd[c].type)[i] EXCEPT !.message = e]]]
    /\ threw' = [threw EXCEPT ![c] = TRUE]
    /\ pc' = [pc EXCEPT ![c] = "done"]

Post(c, m, next) ==
    /\ out' = [out EXCEPT ![c] = Append(@, m)]
    /\ pc' = [pc EXCEPT ![c] = next]

Goto(c, next) == pc' = [pc EXCEPT ![c] = next] /\ UNCHANGED out

\* variant: pdf-lib is given the buffer that pdf.js has a view of
LibLoadUseInput == [by |-> "pdf-lib", buffer |-> "input"]

\* "PDFDocument.load(bufferCopy, ...)" in analyzePdf: pdf-lib reads the copy
LibLoadUse == [by |-> "pdf-lib", buffer |-> "copy"]

\* getDocument({data: new Uint8Array(buffer)}) has been given a view of the
\* caller's ArrayBuffer: pdf.js may take ownership of it ("detached ArrayBuffer
\* if pdfjs consumes it"), or leave it as it is.
Consumed(c) == \E dt \in BOOLEAN : input' = [input EXCEPT ![c].detached = dt]

\* the next message event: invocation c starts when messages 1..c-1 have been delivered
Arrives(c) ==
    /\ c <= Limit(env)
    /\ cmd[c] = NoCmd
    /\ \A b \in 1..(c - 1) : cmd[b] # NoCmd

\* 'analyze': posts the first progress message, copies the buffer and starts
\* loading the document with pdf.js; suspended at the first await.
ReceiveAnalyze(c) ==
    /\ Arrives(c)
    /\ \E d \in Docs(env), fm \in Metas(env) :
          /\ cmd' = [cmd EXCEPT ![c] = Command("analyze", d, fm, NoIndex, NoMinDpi)]
          /\ input' = [input EXCEPT ![c] = Input(fm)]
    /\ Post(c, Progress(Rat(5, 100)), "a_load")
    /\ loads' = [loads EXCEPT ![c] =
                   IF build = "current"
                   THEN <<[by |-> "slice", buffer |-> "input"],
                          [by |-> "pdf.js", buffer |-> "input"]>>
                   ELSE <<[by |-> "pdf.js", buffer |-> "input"]>>]
    /\ UNCHANGED <<canvas, bleedRun, booklet, build, env, page, acc, threw, issueList, scoreResult>>

\* The other commands start loading the document and are suspended at the await.
ReceiveOther(c) ==
    /\ Arrives(c)
    /\ build = "current"
    /\ \E t \in {"convertToGrayscale", "upscaleLowResImages", "fixBleed",
                 "tacHeatmap", "renderPageAsImage"},
          d \in Docs(env), fm \in Metas(env), ix \in {NoIndex} \cup (0..(MaxPages + 1)),
          md \in MinDpis(env) :
          /\ t \in {"tacHeatmap", "renderPageAsImage"} \/ ix = NoIndex
          /\ t = "upscaleLowResImages" \/ md = NoMinDpi
          /\ t = "renderPageAsImage" => ix # NoIndex
          /\ cmd' = [cmd EXCEPT ![c] = Command(t, d, fm, ix, md)]
          /\ input' = [input EXCEPT ![c] = Input(fm)]
          /\ pc' = [pc EXCEPT ![c] =
                      CASE t \in {"convertToGrayscale", "upscaleLowResImages"} -> "t_load"
                        [] t = "fixBleed" -> "b_load"
                        [] t = "tacHeatmap" -> "h_load"
                        [] OTHER -> "r_load"]
    /\ loads' = [loads EXCEPT ![c] =
                   <<[by |-> IF cmd'[c].type = "fixBleed" THEN "pdf-lib" ELSE "pdf.js",
                      buffer |-> "input"]>>]
    /\ UNCHANGED <<canvas, bleedRun, booklet, build, env, page, acc, out, threw, issueList, scoreResult>>

\* A message whose type no branch of the listener matches: every test fails,
\* nothing throws, the listener returns.
ReceiveUnknown(c) ==
    /\ Arrives(c)
    /\ \E d \in Docs(env), fm \in Metas(env) :
          /\ cmd' = [cmd EXCEPT ![c] = Command("unknown", d, fm, NoIndex, NoMinDpi)]
          /\ input' = [input EXCEPT ![c] = Input(fm)]
    /\ Goto(c, "done")
    /\ UNCHANGED <<canvas, bleedRun, booklet, build, env, page, acc, threw, loads, issueList, scoreResult>>


\* ------------------------------------------------------------------ analyze
\* variant: a rejected load is reported as a result holding one error issue
AnalyzeLoadReportsIssue(c) ==
    /\ pc[c] = "a_load"
    /\ build = "current"
    /\ \/ /\ Post(c, AnalysisResult(EmptyDocumentResult(cmd[c].fileMeta)), "done")
          /\ UNCHANGED <<loads, threw>>
       \/ /\ Goto(c, "a_libload")
          /\ loads' = [loads EXCEPT ![c] = Append(@, LibLoadUse)]
          /\ UNCHANGED threw
    /\ Consumed(c)
    /\ UNCHANGED <<canvas, bleedRun, booklet, build, env, cmd, page, acc, issueList, scoreResult>>

\* "const pdf = await loadingTask.promise": the load rejects, or the page count
\* is known and pdf-lib starts loading the copy of the buffer.
AnalyzeLoad(c) ==
    /\ pc[c] = "a_load"
    /\ build = "current"
    /\ \/ /\ Throw(c)
          /\ UNCHANGED loads
       \/ /\ Goto(c, "a_libload")
          /\ loads' = [loads EXCEPT ![c] = Append(@, LibLoadUse)]
          /\ UNCHANGED threw
    /\ Consumed(c)
    /\ UNCHANGED <<canvas, bleedRun, booklet, build, env, cmd, page, acc, issueList, scoreResult>>

\* Earlier build: no second load; the early return for a document without
\* pages, else the accumulators are set up.
LegacyAnalyzeLoad(c) ==
    /\ pc[c] = "a_load"
    /\ build = "legacy"
    /\ \/ /\ Throw(c)
          /\ UNCHANGED acc
       \/ /\ IF cmd[c].doc.numPages = 0
             THEN /\ Post(c, AnalysisResult(EmptyDocumentResult(cmd[c].fileMeta)), "done")
                  /\ UNCHANGED acc
             ELSE /\ Goto(c, "a_layers")
                  /\ acc' = [acc EXCEPT ![c] = InitAcc]
          /\ UNCHANGED threw
    /\ Consumed(c)
    /\ UNCHANGED <<canvas, bleedRun, booklet, build, env, cmd, page, loads, issueList, scoreResult>>

\* "pdfLibDoc = await PDFDocument.load(bufferCopy)" (a failure is caught), then
\* the early return for a document without pages, else the accumulators are
\* set up and the optional content configuration is asked for.
AnalyzeLibLoad(c) ==
    /\ pc[c] = "a_libload"
    /\ IF cmd[c].doc.numPages = 0
       THEN /\ Post(c, AnalysisResult(EmptyDocumentResult(cmd[c].fileMeta)), "done")
            /\ UNCHANGED acc
       ELSE /\ Goto(c, "a_layers")
            /\ acc' = [acc EXCEPT ![c] = [InitAcc EXCEPT !.pdfLibDoc = cmd[c].doc.libLoad]]
    /\ UNCHANGED <<input, canvas, bleedRun, booklet, build, env, cmd, page, threw, loads, issueList, scoreResult>>

\* "await pdf.getOptionalContentConfig()" inside its own try
AnalyzeLayers(c) ==
    /\ pc[c] = "a_layers"
    /\ acc' = [acc EXCEPT ![c] = LayerCheck(@, cmd[c].doc.layers)]
    /\ page' = [page EXCEPT ![c] = 0]
    /\ Goto(c, "a_page")
    /\ UNCHANGED <<input, canvas, bleedRun, booklet, build, env, cmd, threw, loads, issueList, scoreResult>>

\* "pdfLibDoc ? pdfLibDoc.getPage(pageIndex - 1) : null" throws: pdf-lib has
\* loaded the document but has no page at that index.
LibPageThrows(a, p) == build = "current" /\ a.pdfLibDoc /\ ~p.libPage

\* One iteration of the page loop.  "await pdf.getPage(pageIndex)" is outside
\* every try: when it rejects the whole command fails.  So is pdf-lib's
\* getPage, called after the page size has been looked at.
AnalyzePageStep(c) ==
    /\ pc[c] = "a_page"
    /\ page[c] < SampleCount(cmd[c].doc.numPages)
    /\ LET pageIndex == page[c] + 1
           p == cmd[c].doc.pages[pageIndex]
       IN \/ /\ Throw(c)
             /\ UNCHANGED <<acc, page>>
          \/ /\ LibPageThrows(acc[c], p)
             /\ ThrowError(c, "pdfLibDoc.getPage")
             /\ acc' = [acc EXCEPT ![c] = SizeCheck(@, p, pageIndex)]
             /\ UNCHANGED page
          \/ /\ ~LibPageThrows(acc[c], p)
             /\ acc' = [acc EXCEPT ![c] =
                          IF build = "current" THEN AnalyzePage(@, p, pageIndex)
                          ELSE LegacyAnalyzePage(@, p, pageIndex)]
             /\ page' = [page EXCEPT ![c] = @ + 1]
             /\ UNCHANGED <<pc, out, threw>>
    /\ UNCHANGED <<input, canvas, bleedRun, booklet, build, env, cmd, loads, issueList, scoreResult>>

\* variant: the accumulators are shared by the runs in flight; the rules read
\* those of the first one
AnalyzeFinishShared(c) ==
    /\ pc[c] = "a_page"
    /\ page[c] = SampleCount(cmd[c].doc.numPages)
    /\ Post(c, AnalysisResult(buildResult(GenerateIssues(acc[1], cmd[c].fileMeta),
                                          cmd[c].doc.numPages, cmd[c].fileMeta)), "done")
    /\ UNCHANGED <<input, canvas, bleedRun, booklet, build, env, cmd, page, acc, threw, loads, issueList, scoreResult>>

\* After the loop: the rules are evaluated, the result is built and posted.
AnalyzeFinish(c) ==
    /\ pc[c] = "a_page"
    /\ page[c] = SampleCount(cmd[c].doc.numPages)
    /\ Post(c, AnalysisResult(buildResult(GenerateIssues(acc[c], cmd[c].fileMeta),
                                          cmd[c].doc.numPages, cmd[c].fileMeta)), "done")
    /\ UNCHANGED <<input, canvas, bleedRun, booklet, build, env, cmd, page, acc, threw, loads, issueList, scoreResult>>

\* ------------------------------------------------------------------ grayscale / upscale
\* variant: the progress counted from the pages before this one
PageProgressZeroBased(pageIndex, pageCount) == Rat((pageIndex - 1) * 100, pageCount)

\* progress: (pageIndex / pageCount) * 100
PageProgress(pageIndex, pageCount) == Rat(pageIndex * 100, pageCount)

\* The output of a raster pipeline: one page per input page holding one image;
\* the boxes are those of a fresh page of the rendered size.
RasterPages(pages) ==
    [i \in 1..Len(pages) |->
        LET b == Box(0, 0, pages[i].w * 1000, pages[i].h * 1000)
        IN [BasePage EXCEPT !.w = pages[i].w, !.h = pages[i].h,
                            !.boxes = [ok |-> TRUE, media |-> b, trim |-> b, bleed |-> b],
                            !.ops = [ok |-> TRUE, list |-> <<Op("paintImageXObject")>>]]]

\* "const pdf = await loadingTask.promise", then "await PDFDocument.create()"
TransformLoad(c) ==
    /\ pc[c] = "t_load"
    /\ \/ /\ Throw(c)
          /\ UNCHANGED page
       \/ /\ Goto(c, "t_page")
          /\ page' = [page EXCEPT ![c] = 0]
          /\ UNCHANGED threw
    /\ Consumed(c)
    /\ UNCHANGED <<canvas, bleedRun, booklet, build, env, cmd, acc, loads, issueList, scoreResult>>

\* One page: getPage, render, (grayscale), PNG, embed, addPage, drawImage; any
\* of the awaits may reject.  Then the progress message of the page.
TransformPage(c) ==
    /\ pc[c] = "t_page"
    /\ page[c] < cmd[c].doc.numPages
    /\ \/ /\ Throw(c)
          /\ UNCHANGED page
       \/ /\ page' = [page EXCEPT ![c] = @ + 1]
          /\ Post(c, Progress(PageProgress(page[c] + 1, cmd[c].doc.numPages)), "t_page")
          /\ UNCHANGED threw
    /\ UNCHANGED <<input, canvas, bleedRun, booklet, build, env, cmd, acc, loads, issueList, scoreResult>>

\* "await outDoc.save()", the new FileMeta, and the listener posts the result.
TransformSave(c) ==
    /\ pc[c] = "t_page"
    /\ page[c] = cmd[c].doc.numPages
    /\ \/ /\ Throw(c)
       \/ /\ \E n \in OutLengths :
               Post(c, TransformResult(OperationOf(cmd[c].type),
                                       NewMeta(cmd[c].fileMeta, cmd[c].type, cmd[c].minDpi, n),
                                       RasterPages(cmd[c].doc.pages), n), "done")
          /\ UNCHANGED threw
    /\ UNCHANGED <<input, canvas, bleedRun, booklet, build, env, cmd, page, acc, loads, issueList, scoreResult>>


\* ------------------------------------------------------------------ fixBleed
\* bleedPt = bleedMm * 72 / 25.4, in millipoints (rounded to the nearest)
BleedPt(bleedMm) == (bleedMm * 72 * 10000 * 2 + 254) \div (2 * 254)

\* variant: the trim box set to the expanded box too
BleedPageTrimExpanded(p, b) ==
    LET width == p.boxes.media.width
        height == p.boxes.media.height
        grown == Box(-b, -b, width + 2 * b, height + 2 * b)
    IN [p EXCEPT !.boxes = [ok |-> TRUE, media |-> grown, trim |-> grown, bleed |-> grown]]

\* One page of addBleed: getSize() is the media box's size; the media and bleed
\* box become (-b, -b, w + 2b, h + 2b), the trim box (0, 0, w, h).
BleedPage(p, b) ==
    LET width == p.boxes.media.width
        height == p.boxes.media.height
        grown == Box(-b, -b, width + 2 * b, height + 2 * b)
    IN [p EXCEPT !.boxes = [ok |-> TRUE, media |-> grown,
                            trim |-> Box(0, 0, width, height), bleed |-> grown]]

\* the progress messages of pages 1..k of n
BleedProgress(k, n) == [i \in 1..k |-> Progress(PageProgress(i, n))]

\* "await PDFDocument.load(buffer)", then the whole page loop, which has no
\* await: every page's boxes are set and its progress message posted, up to a
\* page that throws; then "await doc.save()".
BleedLoad(c) ==
    /\ pc[c] = "b_load"
    /\ \/ /\ Throw(c)
          /\ UNCHANGED page
       \/ /\ LET pages == cmd[c].doc.pages
                 bad == {i \in 1..Len(pages) : ~pages[i].boxes.ok}
                 \* index of the first page whose boxes cannot be read, or Len + 1
                 stop == IF bad = {} THEN Len(pages) + 1
                         ELSE CHOOSE i \in bad : \A j \in bad : i <= j
             IN /\ page' = [page EXCEPT ![c] = stop - 1]
                /\ IF stop <= Len(pages)
                   THEN /\ out' = [out EXCEPT ![c] = @ \o BleedProgress(stop - 1, Len(pages))
                                                      \o CatchMessage(cmd[c].type)]
                        /\ threw' = [threw EXCEPT ![c] = TRUE]
                        /\ pc' = [pc EXCEPT ![c] = "done"]
                   ELSE /\ out' = [out EXCEPT ![c] = @ \o BleedProgress(Len(pages), Len(pages))]
                        /\ pc' = [pc EXCEPT ![c] = "b_save"]
                        /\ UNCHANGED threw
    /\ UNCHANGED <<input, canvas, bleedRun, booklet, build, env, cmd, acc, loads, issueList, scoreResult>>

\* "outBytes = await doc.save()": rethrown on failure, else the result is posted.
BleedSave(c) ==
    /\ pc[c] = "b_save"
    /\ \/ Throw(c)
       \/ /\ \E n \in OutLengths :
               Post(c, TransformResult("fixBleed", NewMeta(cmd[c].fileMeta, "fixBleed", cmd[c].minDpi, n),
                        [i \in 1..Len(cmd[c].doc.pages) |->
                            BleedPage(cmd[c].doc.pages[i], BleedPt(DefaultBleedMm))], n),
                    "done")
          /\ UNCHANGED threw
    /\ UNCHANGED <<input, canvas, bleedRun, booklet, build, env, cmd, page, acc, loads, issueList, scoreResult>>

\* ------------------------------------------------------------------ tacHeatmap, renderPageAsImage
\* "pageIndex: number = 1"
HeatPageIndex(ix) == IF ix = NoIndex THEN 1 ELSE ix

\* variant: no range check
OutOfRangeClamped(pageIndex, numPages) == FALSE

\* generateTacHeatmap's range check
OutOfRange(pageIndex, numPages) == pageIndex < 1 \/ pageIndex > numPages

\* The document load, then the range check; an exception is caught by the
\* inner try of the branch, which posts tacHeatmapError.
HeatLoad(c) ==
    /\ pc[c] = "h_load"
    /\ \/ Throw(c)
       \/ /\ OutOfRange(HeatPageIndex(cmd[c].pageIndex), cmd[c].doc.numPages)
          /\ Throw(c)
       \/ /\ ~OutOfRange(HeatPageIndex(cmd[c].pageIndex), cmd[c].doc.numPages)
          /\ Goto(c, "h_page")
          /\ UNCHANGED threw
    /\ Consumed(c)
    /\ UNCHANGED <<canvas, bleedRun, booklet, build, env, cmd, page, acc, loads, issueList, scoreResult>>

\* getPage and the render may reject; else the heatmap of the page is posted.
HeatPage(c) ==
    /\ pc[c] = "h_page"
    /\ \/ Throw(c)
       \/ /\ Post(c, [Msg("tacHeatmapResult") EXCEPT
                        !.pageIndex = HeatPageIndex(cmd[c].pageIndex)], "done")
          /\ UNCHANGED threw
    /\ UNCHANGED <<input, canvas, bleedRun, booklet, build, env, cmd, page, acc, loads, issueList, scoreResult>>

\* The document load, then "await pdf.getPage(pageIndex)".
RenderLoad(c) ==
    /\ pc[c] = "r_load"
    /\ \/ Throw(c)
       \/ /\ GetPageRejects(cmd[c].pageIndex, cmd[c].doc.numPages)
          /\ Throw(c)
       \/ /\ ~GetPageRejects(cmd[c].pageIndex, cmd[c].doc.numPages)
          /\ Goto(c, "r_page")
          /\ UNCHANGED threw
    /\ Consumed(c)
    /\ UNCHANGED <<canvas, bleedRun, booklet, build, env, cmd, page, acc, loads, issueList, scoreResult>>

\* render, convertToBlob, FileReader: any may fail; else the image is posted.
RenderPage(c) ==
    /\ pc[c] = "r_page"
    /\ \/ Throw(c)
       \/ /\ Post(c, [Msg("renderPageResult") EXCEPT !.pageIndex = cmd[c].pageIndex], "done")
          /\ UNCHANGED threw
    /\ UNCHANGED <<input, canvas, bleedRun, booklet, build, env, cmd, page, acc, loads, issueList, scoreResult>>


\* The ink estimate of one pixel (r, g, b, a bytes).  Alpha is 0 or 255 here, so
\* that "r * a + (1 - a)" is r / 255 or 1; the channels are kept in 255ths:
\*   k = 1 - max / 255, c = (max - r) / max (0 when k = 1), m and y alike,
\*   totalInk = (c + m + y + k) * 400, tac = Math.round(totalInk).
Tac(r, g, b, a) ==
    LET r_vis == IF a = 255 THEN r ELSE 255
        g_vis == IF a = 255 THEN g ELSE 255
        b_vis == IF a = 255 THEN b ELSE 255
        mx == Max(r_vis, Max(g_vis, b_vis))
        num == 400 * ((3 * mx - r_vis - g_vis - b_vis) * 255 + (255 - mx) * mx)
        den == mx * 255
    IN IF mx = 0 THEN 400 ELSE (2 * num + den) \div (2 * den)

\* The pixel loop of generateTacHeatmap on the image data of the canvas and the
\* message posted: values is a Uint8Array of width * height entries, entry p
\* being "Math.min(255, tac * 255 / 400)" with its fraction dropped by the store.
generateTacHeatmap(img) ==
    [width |-> img.width, height |-> img.height,
     values |-> [p \in 1..(img.width * img.height) |->
                   IF 4 * p > Len(img.data) THEN 0
                   ELSE Min(255, (Tac(img.data[4 * p - 3], img.data[4 * p - 2],
                                      img.data[4 * p - 1], img.data[4 * p]) * 255) \div 400)],
     maxTac |-> LET tacs == {0} \cup {Tac(img.data[4 * p - 3], img.data[4 * p - 2],
                                          img.data[4 * p - 1], img.data[4 * p]) :
                                        p \in 1..(Len(img.data) \div 4)}
                \* "let maxTacFound = 0; ... maxTacFound = Math.max(maxTacFound, tac)"
                IN CHOOSE t \in tacs : \A u \in tacs : t >= u]

\* generateTacHeatmap on a rendered page
HeatRaster ==
    /\ env = "heat"
    /\ canvas.stage = "input"
    /\ canvas' = [canvas EXCEPT !.first = generateTacHeatmap(canvas.input), !.stage = "once"]
    /\ UNCHANGED <<input, bleedRun, booklet, build, env, cmd, pc, page, acc, out, threw, loads,
                   issueList, scoreResult>>


\* ------------------------------------------------------------------ buildResult called directly
\* The issues a caller of buildResult may pass: with a severity, or without one
\* and with tags getSeverity reads.
ScoreIssues ==
    { Issue("multimedia-content", 1, "multimedia", ERROR),
      Issue("transparency-detected", 1, "transparency", WARNING),
      [Issue("tagged", 1, "other", NoSeverity) EXCEPT !.tags = {"critical"}],
      [Issue("tagged", 2, "other", NoSeverity) EXCEPT !.tags = {"warn", "low-res"}],
      [Issue("tagged", 2, "other", NoSeverity) EXCEPT !.tags = {"low-res"}] }

ScoreMeta == FileMeta(<<"book", ".pdf">>, 1000)

\* buildResult on the issue list extended by one issue
BuildLonger ==
    /\ env = "score"
    /\ Len(issueList) < MaxIssues
    /\ \E it \in ScoreIssues :
          /\ issueList' = Append(issueList, it)
          /\ scoreResult' = buildResult(issueList', 2, ScoreMeta)
    /\ UNCHANGED <<input, canvas, bleedRun, booklet, build, env, cmd, pc, page, acc, out, threw, loads>>

\* ------------------------------------------------------------------ createBooklet (imposition.ts)
\* pagesToAdd = (4 - (totalPages % 4)) % 4; signatureSize = totalPages + pagesToAdd
pagesToAdd(totalPages) == (4 - (totalPages % 4)) % 4
signatureSize(totalPages) == totalPages + pagesToAdd(totalPages)

\* sheetsCount = signatureSize / 2: the number of output pages (spreads)
sheetsCount(totalPages) == signatureSize(totalPages) \div 2

\* variant: the left index of the order given in the comments, (N, 1), (2, N-1),
\* (N-2, 3), (4, N-3)
leftIdxAsCommented(i, N) == IF i % 2 = 0 THEN N - 1 - i ELSE i

\* leftIdx of spread i (0-based) for signature size N
leftIdx(i, N) == IF i % 2 = 0 THEN N - 1 - (i \div 2) ELSE 1 + ((i - 1) \div 2)

\* rightIdx of spread i (0-based) for signature size N
rightIdx(i, N) == IF i % 2 = 0 THEN i \div 2 ELSE N - 2 - ((i - 1) \div 2)

\* pagesMap[pNum] holds an embedded page (not null, not undefined)
HasPage(pNum, totalPages) == pNum >= 0 /\ pNum < totalPages

\* The output page of spread i: drawContent(leftIdx, 0) and
\* drawContent(rightIdx, halfWidth); a half is drawn when pagesMap has the page.
Spread(i, totalPages) ==
    LET N == signatureSize(totalPages)
    IN [leftIdx |-> leftIdx(i, N), rightIdx |-> rightIdx(i, N),
        leftDrawn |-> HasPage(leftIdx(i, N), totalPages),
        rightDrawn |-> HasPage(rightIdx(i, N), totalPages)]

\* the documents createBooklet is called on, by page count

\* no createBooklet call
NoBooklet == [totalPages |-> 0, spreads |-> <<>>, stage |-> "none"]

\* One iteration of "for (let i = 0; i < sheetsCount; i++)".
BookletSpread ==
    /\ env = "booklet"
    /\ booklet.stage = "loop"
    /\ Len(booklet.spreads) < sheetsCount(booklet.totalPages)
    /\ booklet' = [booklet EXCEPT
                      !.spreads = Append(@, Spread(Len(booklet.spreads), booklet.totalPages))]
    /\ UNCHANGED <<input, canvas, bleedRun, build, env, cmd, pc, page, acc, out, threw, loads, issueList, scoreResult>>

\* "return await outDoc.save()"
BookletSave ==
    /\ env = "booklet"
    /\ booklet.stage = "loop"
    /\ Len(booklet.spreads) = sheetsCount(booklet.totalPages)
    /\ booklet' = [booklet EXCEPT !.stage = "saved"]
    /\ UNCHANGED <<input, canvas, bleedRun, build, env, cmd, pc, page, acc, out, threw, loads, issueList, scoreResult>>

\* ------------------------------------------------------------------ addBleed on its own output
\* The documents addBleed is applied to.  The media boxes of their pages, in
\* millipoints: A4, A5 and Letter at the origin, A4 with its lower left corner
\* at (10, 20) pt, A4 already expanded by 3 mm, and a square page around a
\* negative origin.  A page has no trim or bleed box of its own: pdf-lib's
\* getTrimBox / getBleedBox then return the media box.
BleedInputs ==
    SeqsUpTo({[BasePage EXCEPT !.boxes = [ok |-> TRUE, media |-> b, trim |-> b, bleed |-> b]] :
                 b \in { A4Box, Box(0, 0, 420000, 595000), Box(0, 0, 612000, 792000),
                         Box(10000, 20000, 595000, 842000),
                         Grow(A4Box, BleedPt(DefaultBleedMm)),
                         Box(-5000, -5000, 300000, 300000) }}, MaxPages)

\* addBleed(buffer, fileMeta) on a document: every page through the loop.
addBleed(pages) == [i \in 1..Len(pages) |-> BleedPage(pages[i], BleedPt(DefaultBleedMm))]

NoBleedRun == [input |-> <<>>, first |-> <<>>, second |-> <<>>, stage |-> "none"]

\* fixBleed on the input document
BleedFirst ==
    /\ env = "bleed"
    /\ bleedRun.stage = "input"
    /\ bleedRun' = [bleedRun EXCEPT !.first = addBleed(bleedRun.input), !.stage = "once"]
    /\ UNCHANGED <<input, canvas, booklet, build, env, cmd, pc, page, acc, out, threw, loads, issueList,
                   scoreResult>>

\* fixBleed on the document the first fixBleed returned
BleedSecond ==
    /\ env = "bleed"
    /\ bleedRun.stage = "once"
    /\ bleedRun' = [bleedRun EXCEPT !.second = addBleed(bleedRun.first), !.stage = "twice"]
    /\ UNCHANGED <<input, canvas, booklet, build, env, cmd, pc, page, acc, out, threw, loads, issueList,
                   scoreResult>>

\* ------------------------------------------------------------------ convertCanvasToGrayscale
\* Channel values are bytes; a luma value is kept in thousandths.
\* gray = 0.299 * r + 0.587 * g + 0.114 * b
\* variant: the weights of red and green exchanged
LumaSwapped(r, g, b) == 587 * r + 299 * g + 114 * b

Luma(r, g, b) == 299 * r + 587 * g + 114 * b

\* Storing a number into the Uint8ClampedArray img.data: clamped to 0..255 and
\* rounded to the nearest integer, a half to the even neighbour.  On the
\* channel values used here the double the code computes is the exact sum, also
\* at a half.
ToUint8Clamp(thousandths) ==
    LET q == thousandths \div 1000
        m == thousandths % 1000
    IN IF thousandths <= 0 THEN 0
       ELSE IF thousandths >= 255000 THEN 255
       ELSE IF m < 500 THEN q
       ELSE IF m > 500 THEN q + 1
       ELSE IF q % 2 = 0 THEN q ELSE q + 1

\* The loop "for (let i = 0; i < d.length; i += 4)": d[i], d[i + 1], d[i + 2]
\* are set to the gray of the pixel, d[i + 3] (alpha) is not written.
\* d is 1-based here: byte j belongs to the pixel starting at i + 1.
convertCanvasToGrayscale(d) ==
    [j \in 1..Len(d) |->
        LET i == 4 * ((j - 1) \div 4)
        IN IF j - i = 4 THEN d[j]
           ELSE ToUint8Clamp(Luma(d[i + 1], d[i + 2], d[i + 3]))]


\* one pixel: r, g, b, a
PixelSet == {<<r, g, b, a>> : r \in {0, 250, 255}, g \in {0, 250, 255},
                              b \in {0, 250, 255}, a \in {128, 255}}

RECURSIVE ImageDatas(_)
\* the data of the canvases of n pixels
ImageDatas(n) ==
    IF n = 0 THEN {<<>>}
    ELSE {d \o px : d \in ImageDatas(n - 1), px \in PixelSet}

NoCanvas == [input |-> <<>>, first |-> <<>>, second |-> <<>>, stage |-> "none"]

\* convertCanvasToGrayscale on a rendered canvas
GrayFirst ==
    /\ env = "canvas"
    /\ canvas.stage = "input"
    /\ canvas' = [canvas EXCEPT !.first = convertCanvasToGrayscale(canvas.input),
                                !.stage = "once"]
    /\ UNCHANGED <<input, bleedRun, booklet, build, env, cmd, pc, page, acc, out, threw, loads,
                   issueList, scoreResult>>

\* convertCanvasToGrayscale on the canvas it has converted
GraySecond ==
    /\ env = "canvas"
    /\ canvas.stage = "once"
    /\ canvas' = [canvas EXCEPT !.second = convertCanvasToGrayscale(canvas.first),
                                !.stage = "twice"]
    /\ UNCHANGED <<input, bleedRun, booklet, build, env, cmd, pc, page, acc, out, threw, loads,
                   issueList, scoreResult>>

\* ------------------------------------------------------------------ specifications
InitWorker ==
    /\ cmd = [c \in CmdIds |-> NoCmd]
    /\ pc = [c \in CmdIds |-> "idle"]
    /\ page = [c \in CmdIds |-> 0]
    /\ acc = [c \in CmdIds |-> InitAcc]
    /\ out = [c \in CmdIds |-> <<>>]
    /\ threw = [c \in CmdIds |-> FALSE]
    /\ loads = [c \in CmdIds |-> <<>>]
    /\ input = [c \in CmdIds |-> Input(NoCmd.fileMeta)]
    /\ issueList = <<>>
    /\ scoreResult = buildResult(<<>>, 2, ScoreMeta)

\* The current build, serving the commands of a caller.
Init == InitWorker /\ build = "current" /\ env = "protocol" /\ booklet = NoBooklet
    /\ bleedRun = NoBleedRun
    /\ canvas = NoCanvas

Next ==
    \E c \in CmdIds :
        \/ ReceiveAnalyze(c) \/ ReceiveOther(c) \/ ReceiveUnknown(c)
        \/ AnalyzeLoad(c) \/ AnalyzeLibLoad(c) \/ AnalyzeLayers(c)
        \/ AnalyzePageStep(c) \/ AnalyzeFinish(c)
        \/ TransformLoad(c) \/ TransformPage(c) \/ TransformSave(c)
        \/ BleedLoad(c) \/ BleedSave(c)
        \/ HeatLoad(c) \/ HeatPage(c) \/ RenderLoad(c) \/ RenderPage(c)

Spec == Init /\ [][Next]_vars

\* The current build analysing one document of the analysis inputs.
InitAnalyze == InitWorker /\ build = "current" /\ env = "analysis" /\ booklet = NoBooklet
    /\ bleedRun = NoBleedRun
    /\ canvas = NoCanvas

NextAnalyze ==
    \E c \in CmdIds :
        \/ ReceiveAnalyze(c) \/ AnalyzeLoad(c) \/ AnalyzeLibLoad(c) \/ AnalyzeLayers(c)
        \/ AnalyzePageStep(c) \/ AnalyzeFinish(c)

SpecAnalyze == InitAnalyze /\ [][NextAnalyze]_vars

\* The current build with two analyze commands in flight.
InitRuns == InitWorker /\ build = "current" /\ env = "runs" /\ booklet = NoBooklet
    /\ bleedRun = NoBleedRun
    /\ canvas = NoCanvas

SpecRuns == InitRuns /\ [][NextAnalyze]_vars

\* The earlier build analysing one document of the analysis inputs.
InitLegacy == InitWorker /\ build = "legacy" /\ env = "analysis" /\ booklet = NoBooklet
    /\ bleedRun = NoBleedRun
    /\ canvas = NoCanvas

NextLegacy ==
    \E c \in CmdIds :
        \/ ReceiveAnalyze(c) \/ LegacyAnalyzeLoad(c) \/ AnalyzeLayers(c)
        \/ AnalyzePageStep(c) \/ AnalyzeFinish(c)

SpecLegacy == InitLegacy /\ [][NextLegacy]_vars

\* buildResult on the issue lists of a caller.
InitScore == InitWorker /\ build = "current" /\ env = "score" /\ booklet = NoBooklet
    /\ bleedRun = NoBleedRun
    /\ canvas = NoCanvas

NextScore == BuildLonger

SpecScore == InitScore /\ [][NextScore]_vars

\* createBooklet on a document of 0..MaxSourcePages pages: the document is
\* loaded, its pages embedded, and the loop over the spreads starts.
InitBooklet ==
    /\ InitWorker /\ build = "current" /\ env = "booklet"
    /\ \E n \in 0..MaxSourcePages : booklet = [totalPages |-> n, spreads |-> <<>>, stage |-> "loop"]
    /\ bleedRun = NoBleedRun
    /\ canvas = NoCanvas

NextBooklet == BookletSpread \/ BookletSave

SpecBooklet == InitBooklet /\ [][NextBooklet]_vars

\* fixBleed on a document, then on the document it returned.
InitBleed ==
    /\ InitWorker /\ build = "current" /\ env = "bleed" /\ booklet = NoBooklet
    /\ \E pages \in BleedInputs :
          bleedRun = [input |-> pages, first |-> <<>>, second |-> <<>>, stage |-> "input"]
    /\ canvas = NoCanvas

NextBleed == BleedFirst \/ BleedSecond

SpecBleed == InitBleed /\ [][NextBleed]_vars

\* convertCanvasToGrayscale on a canvas of 1..MaxPixels pixels, then on its result.
InitCanvas ==
    /\ InitWorker /\ build = "current" /\ env = "canvas" /\ booklet = NoBooklet
    /\ bleedRun = NoBleedRun
    /\ \E n \in 1..MaxPixels : \E d \in ImageDatas(n) :
          canvas = [input |-> d, first |-> <<>>, second |-> <<>>, stage |-> "input"]

NextCanvas == GrayFirst \/ GraySecond

SpecCanvas == InitCanvas /\ [][NextCanvas]_vars

\* generateTacHeatmap on the raster of a page: width x height pixels, 1..MaxPixels
\* in all, each r, g, b of {0, 1, 128, 255} and opaque or fully transparent.
InitHeat ==
    /\ InitWorker /\ build = "current" /\ env = "heat" /\ booklet = NoBooklet
    /\ bleedRun = NoBleedRun
    /\ \E pxs \in SeqsUpTo({<<r, g, b, a>> : r \in {0, 1, 128, 255}, g \in {0, 1, 128, 255},
                                             b \in {0, 1, 128, 255}, a \in {0, 255}},
                            MaxPixels) :
       \E w \in 1..Len(pxs) :
          /\ Len(pxs) % w = 0
          /\ canvas = [input |-> [width |-> w, height |-> Len(pxs) \div w,
                                  data |-> [j \in 1..(4 * Len(pxs)) |->
                                              pxs[((j - 1) \div 4) + 1][((j - 1) % 4) + 1]]],
                       first |-> <<>>, second |-> <<>>, stage |-> "input"]

SpecHeat == InitHeat /\ [][HeatRaster]_vars

\* The current build after a fixBleed command has been delivered; the caller
\* then sends commands for the document fixBleed returns.
InitRecheck ==
    /\ build = "current" /\ env = "recheck" /\ booklet = NoBooklet
    /\ bleedRun = NoBleedRun
    /\ canvas = NoCanvas
    /\ \E pages \in BleedInputs :
          cmd = [c \in CmdIds |->
                   IF c = 1 THEN Command("fixBleed", Doc(pages, TRUE, "none"),
                                         FileMeta(<<"book", ".pdf">>, 1000), NoIndex, NoMinDpi)
                   ELSE NoCmd]
    /\ pc = [c \in CmdIds |-> IF c = 1 THEN "b_load" ELSE "idle"]
    /\ page = [c \in CmdIds |-> 0]
    /\ acc = [c \in CmdIds |-> InitAcc]
    /\ out = [c \in CmdIds |-> <<>>]
    /\ threw = [c \in CmdIds |-> FALSE]
    /\ loads = [c \in CmdIds |-> IF c = 1 THEN <<[by |-> "pdf-lib", buffer |-> "input"]>>
                                 ELSE <<>>]
    /\ input = [c \in CmdIds |-> Input(cmd[c].fileMeta)]
    /\ issueList = <<>>
    /\ scoreResult = buildResult(<<>>, 2, ScoreMeta)

SpecRecheck == InitRecheck /\ [][Next]_vars

\* The current build, serving one command of a caller whose file names and
\* minDpi values vary.
InitTransform ==
    /\ InitWorker /\ build = "current" /\ env = "transform" /\ booklet = NoBooklet
    /\ bleedRun = NoBleedRun
    /\ canvas = NoCanvas

SpecTransform == InitTransform /\ [][Next]_vars


\* ------------------------------------------------------------------ claims
Recognized ==
    {"analyze", "convertToGrayscale", "upscaleLowResImages", "fixBleed",
     "tacHeatmap", "renderPageAsImage"}
TransformTypes == {"convertToGrayscale", "upscaleLowResImages", "fixBleed"}

\* the terminal messages a command of a type may end with
TerminalsFor(type) ==
    CASE type = "analyze" -> {"analysisResult", "analysisError"}
      [] type \in TransformTypes -> {"transformResult", "transformError"}
      [] type = "tacHeatmap" -> {"tacHeatmapResult", "tacHeatmapError"}
      [] type = "renderPageAsImage" -> {"renderPageResult", "renderError"}
      [] OTHER -> {}

Terminals(s) == {i \in 1..Len(s) : s[i].type \in TerminalTypes}
ProgressOf(s) == {i \in 1..Len(s) : s[i].type = "analysisProgress"}
HasTerminal(s) == Terminals(s) # {}

\* C1: for every recognized command the worker posts zero or more
\* analysisProgress messages and then exactly one terminal message (a result or
\* an error of the command's kind): at any moment the posted messages are
\* progress messages followed by at most one terminal message, which is the
\* last one, and a command that has ended has exactly one.
C1_ProgressThenOneTerminal ==
    \A c \in CmdIds :
        cmd[c].type \in Recognized =>
            /\ \A i \in 1..Len(out[c]) :
                  \/ out[c][i].type = "analysisProgress" /\ i < Len(out[c])
                  \/ out[c][i].type = "analysisProgress" /\ pc[c] # "done"
                  \/ out[c][i].type \in TerminalsFor(cmd[c].type) /\ i = Len(out[c])
            /\ Cardinality(Terminals(out[c])) <= 1
            /\ pc[c] = "done" <=> Cardinality(Terminals(out[c])) = 1

\* two commands interleaved, both ended, one of them with progress messages
C1_Witness ==
    \E a, b \in CmdIds :
        /\ a # b /\ pc[a] = "done" /\ pc[b] = "done"
        /\ cmd[a].type = "convertToGrayscale" /\ Len(out[a]) = 3
        /\ out[a][3].type = "transformResult"
        /\ cmd[b].type = "tacHeatmap" /\ threw[b]

\* C2: at most one command is processed at a time: no step of a later command
\* (its document load, progress or terminal post) happens before the terminal
\* message of an earlier command is posted.
C2_OneCommandAtATime ==
    \A a, b \in CmdIds :
        (a < b /\ cmd[a].type \in Recognized /\ (loads[b] # <<>> \/ out[b] # <<>>))
            => HasTerminal(out[a])

\* C3: a command whose type is not recognized is rejected as an error: the
\* worker posts an error message for it and nothing else, and loads nothing.
C3_UnknownRejected ==
    \A c \in CmdIds :
        (cmd[c].type = "unknown" /\ pc[c] = "done") =>
            /\ Len(out[c]) = 1
            /\ out[c][1].type \in {"analysisError", "transformError", "tacHeatmapError", "renderError"}
            /\ loads[c] = <<>>

\* the operation tag the protocol gives each transform command
TagOf(type) ==
    CASE type = "convertToGrayscale" -> "grayscale"
      [] type = "upscaleLowResImages" -> "upscaleImages"
      [] type = "fixBleed" -> "fixBleed"

\* C4: when a step of a transform command throws, the command ends with exactly
\* one transformError carrying the command's operation tag, and no
\* transformResult is posted for it, whatever progress was posted before.
C4_TransformErrorTagged ==
    \A c \in CmdIds :
        (cmd[c].type \in TransformTypes /\ threw[c]) =>
            /\ pc[c] = "done"
            /\ Len(out[c]) >= 1
            /\ out[c][Len(out[c])].type = "transformError"
            /\ out[c][Len(out[c])].operation = TagOf(cmd[c].type)
            /\ \A i \in 1..(Len(out[c]) - 1) : out[c][i].type = "analysisProgress"

\* a transform that threw after progress messages were posted
C4_Witness ==
    \E c \in CmdIds :
        /\ cmd[c].type = "upscaleLowResImages" /\ threw[c]
        /\ Len(out[c]) = 2 /\ out[c][1].type = "analysisProgress"

\* the page a tacHeatmap / renderPageAsImage command asks for
RequestedPage(c) ==
    IF cmd[c].type = "tacHeatmap" /\ cmd[c].pageIndex = NoIndex THEN 1 ELSE cmd[c].pageIndex

\* C5: page indices are 1-based; for tacHeatmap and renderPageAsImage an index
\* below 1 or above the page count ends the command with its error message and
\* no result; a result that is posted is for the requested page (no clamping).
C5_PageIndexOutOfRange ==
    \A c \in CmdIds :
        cmd[c].type \in {"tacHeatmap", "renderPageAsImage"} =>
            /\ \A i \in 1..Len(out[c]) :
                  out[c][i].type \in {"tacHeatmapResult", "renderPageResult"} =>
                      /\ out[c][i].pageIndex = RequestedPage(c)
                      /\ 1 <= RequestedPage(c) /\ RequestedPage(c) <= cmd[c].doc.numPages
            /\ (pc[c] = "done" /\ (RequestedPage(c) < 1 \/ RequestedPage(c) > cmd[c].doc.numPages)) =>
                  out[c] = <<Msg(IF cmd[c].type = "tacHeatmap" THEN "tacHeatmapError"
                                 ELSE "renderError")>>

\* an index above the page count of a document that loaded, and an index 0
C5_Witness ==
    \E a, b \in CmdIds :
        /\ cmd[a].type = "tacHeatmap" /\ cmd[a].doc.numPages = 2 /\ cmd[a].pageIndex = 3
        /\ pc[a] = "done"
        /\ cmd[b].type = "renderPageAsImage" /\ cmd[b].pageIndex = 0 /\ pc[b] = "done"


\* the progress values a command has posted, in order
ProgressSeq(s) ==
    LET idx == ProgressOf(s)
    IN [k \in 1..Cardinality(idx) |->
          LET i == CHOOSE j \in idx : Cardinality({m \in idx : m < j}) = k - 1
          IN s[i].progress]

\* C6: within one command the progress values never decrease and lie in
\* [0, 100]; in the three transform pipelines the k-th progress message is that
\* of page k, with value k / pageCount * 100, so a transformResult of a
\* document with pages is preceded by a progress message for every page, the
\* last one being 100.
C6_ProgressMonotone ==
    \A c \in CmdIds :
        LET ps == ProgressSeq(out[c])
            n == cmd[c].doc.numPages
        IN /\ \A k \in 1..Len(ps) :
                 /\ RatLeq(Rat(0, 1), ps[k]) /\ RatLeq(ps[k], Rat(100, 1))
                 /\ k > 1 => RatLeq(ps[k - 1], ps[k])
           /\ cmd[c].type \in TransformTypes =>
                 /\ \A k \in 1..Len(ps) : ps[k].n * n = k * 100 * ps[k].d
                 /\ (HasTerminal(out[c]) /\ out[c][Len(out[c])].type = "transformResult") =>
                        /\ Len(ps) = n
                        /\ n >= 1 => ps[n].n = 100 * ps[n].d

\* a raster transform and a bleed fix of two pages, both with their result
C6_Witness ==
    \E a, b \in CmdIds :
        /\ cmd[a].type = "convertToGrayscale" /\ cmd[b].type = "fixBleed"
        /\ Len(out[a]) = 3 /\ out[a][3].type = "transformResult"
        /\ Len(out[b]) = 3 /\ out[b][3].type = "transformResult"

\* C7: for every issue list passed to buildResult the score is an integer in
\* 0..100 and equals clamp(100 - 15 * errors - 7 * warnings, 0, 100), errors and
\* warnings being the numbers of issues of severity error and warning; issues
\* of severity info do not count.
C7_ScoreFormula ==
    LET errors == Cardinality({i \in 1..Len(issueList) : getSeverity(issueList[i]) = ERROR})
        warnings == Cardinality({i \in 1..Len(issueList) : getSeverity(issueList[i]) = WARNING})
        raw == 100 - 15 * errors - 7 * warnings
    IN /\ scoreResult.issues = issueList
       /\ scoreResult.score \in 0..100
       /\ scoreResult.score = (IF raw < 0 THEN 0 ELSE IF raw > 100 THEN 100 ELSE raw)

\* a list whose penalties exceed 100, scored 0 by the clamp
C7_Witness ==
    /\ Len(issueList) = MaxIssues
    /\ SevCount(issueList, ERROR) * 15 + SevCount(issueList, WARNING) * 7 > 100
    /\ scoreResult.score = 0

\* the analysisResult messages a command has posted
ResultsOf(c) == {i \in 1..Len(out[c]) : out[c][i].type = "analysisResult"}

\* C8: analyzing a document with zero pages yields a result with exactly one
\* issue, 'empty-document' of severity error, pages = [] and pageCount = 0; no
\* other rule (file size, color, images, ...) adds an issue.
C8_EmptyDocument ==
    \A c \in CmdIds :
        (cmd[c].type = "analyze" /\ cmd[c].doc.numPages = 0) =>
            /\ (pc[c] = "done" /\ ~threw[c]) => ResultsOf(c) # {}
            /\ \A i \in ResultsOf(c) :
                  /\ Len(out[c][i].issues) = 1
                  /\ out[c][i].issues[1].id = "empty-document"
                  /\ out[c][i].issues[1].severity = ERROR
                  /\ out[c][i].pages = <<>>
                  /\ out[c][i].pageCount = 0

\* the result of a zero-page file of more than 150 MB
C8_Witness ==
    \E c \in CmdIds :
        /\ cmd[c].doc.numPages = 0 /\ cmd[c].fileMeta.size > 150 * 1024 * 1024
        /\ ResultsOf(c) # {}

\* C9: in every analysis result no two issues share an id.
C9_UniqueIssueIds ==
    \A c \in CmdIds : \A i \in ResultsOf(c) :
        \A j, k \in 1..Len(out[c][i].issues) :
            out[c][i].issues[j].id = out[c][i].issues[k].id => j = k

\* pages 1..sampleCount whose operator list was delivered and holds an operator of class S
SampledWith(c, S) ==
    {i \in 1..SampleCount(cmd[c].doc.numPages) :
        /\ cmd[c].doc.pages[i].ops.ok
        /\ \E k \in 1..Len(cmd[c].doc.pages[i].ops.list) :
              cmd[c].doc.pages[i].ops.list[k].fn \in S}

IdsOf(m) == {m.issues[k].id : k \in 1..Len(m.issues)}

\* C10: if the operator lists of the sampled pages hold an RGB fill/stroke color
\* operator and a CMYK fill/stroke color operator (on one page or on two), the
\* result has the 'mixed-rgb-cmyk' warning and none of 'rgb-only-content',
\* 'cmyk-only-content', 'grayscale-only-content'.
C10_MixedRgbCmyk ==
    \A c \in CmdIds : \A i \in ResultsOf(c) :
        (/\ SampledWith(c, {"setFillRGBColor", "setStrokeRGBColor"}) # {}
         /\ SampledWith(c, {"setFillCMYKColor", "setStrokeCMYKColor"}) # {}) =>
            /\ \E k \in 1..Len(out[c][i].issues) :
                  /\ out[c][i].issues[k].id = "mixed-rgb-cmyk"
                  /\ out[c][i].issues[k].severity = WARNING
            /\ IdsOf(out[c][i]) \cap
                  {"rgb-only-content", "cmyk-only-content", "grayscale-only-content"} = {}

\* RGB on one page and CMYK on another, and the result posted
C10_Witness ==
    \E c \in CmdIds :
        /\ ResultsOf(c) # {}
        /\ cmd[c].doc.numPages = 2
        /\ SampledWith(c, rgbOps) = {1}
        /\ SampledWith(c, cmykOps) = {2}


\* the sampled pages of the document of command c
SampledPages(c) == {cmd[c].doc.pages[i] : i \in 1..SampleCount(cmd[c].doc.numPages)}

\* the boxes of page p can be read and its bleed box exceeds its trim box by
\* g millipoints on every side
GapOnEverySide(p, g) == p.boxes.ok /\ p.boxes.bleed = Grow(p.boxes.trim, g)

\* 2 mm and 3.5 mm in millipoints (mm * 72 / 25.4 * 1000), rounded down
TwoMm == (2 * 72 * 10000) \div 254
ThreeAndAHalfMm == (35 * 72 * 1000) \div 254

\* C11: bleed classification of analyze.  A document whose trim and bleed boxes
\* are identical on every sampled page yields 'missing-bleed-info' and not
\* 'insufficient-bleed'; one with a 2 mm gap on every side of every sampled
\* page yields 'insufficient-bleed' and not 'missing-bleed-info'; one with a
\* 3.5 mm gap on every side yields neither.
C11_BleedClassification ==
    \A c \in CmdIds : \A i \in ResultsOf(c) :
        LET ids == IdsOf(out[c][i])
            all(g) == /\ cmd[c].doc.numPages >= 1
                      /\ \A p \in SampledPages(c) : GapOnEverySide(p, g)
        IN /\ all(0) => ("missing-bleed-info" \in ids /\ "insufficient-bleed" \notin ids)
           /\ all(TwoMm) => ("insufficient-bleed" \in ids /\ "missing-bleed-info" \notin ids)
           /\ all(ThreeAndAHalfMm) =>
                 ("insufficient-bleed" \notin ids /\ "missing-bleed-info" \notin ids)


\* the image-paint operators with a pixel size on the sampled pages of command
\* c whose operator list was delivered, as <<page, position>>
SizedImages(c) ==
    UNION { { <<i, k>> : k \in { j \in 1..Len(cmd[c].doc.pages[i].ops.list) :
                                    LET op == cmd[c].doc.pages[i].ops.list[j]
                                    IN /\ op.fn \in imageOps
                                       /\ op.args.kind = "image"
                                       /\ op.args.width > 0 /\ op.args.height > 0 } } :
            i \in { n \in 1..SampleCount(cmd[c].doc.numPages) : cmd[c].doc.pages[n].ops.ok } }

\* min(pw / (W / 72), ph / (H / 72)) < 150 for image k of page i, in integers:
\* pw * 72 < 150 * W or ph * 72 < 150 * H
Below150(c, i, k) ==
    LET pg == cmd[c].doc.pages[i]
        args == pg.ops.list[k].args
    IN args.width * 72 < 150 * pg.w \/ args.height * 72 < 150 * pg.h

\* C12: an image of pw x ph pixels on a page of W x H points is counted as
\* low-resolution iff min(pw / (W / 72), ph / (H / 72)) is strictly below 150:
\* the result has 'low-resolution-images' iff some such image is on a sampled
\* page, so a 900 x 1200 px image on a 432 x 576 pt page (exactly 150) alone
\* gives no such issue.
C12_LowResBoundary ==
    \A c \in CmdIds : \A i \in ResultsOf(c) :
        cmd[c].doc.numPages >= 1 =>
            ("low-resolution-images" \in IdsOf(out[c][i])
                <=> \E im \in SizedImages(c) : Below150(c, im[1], im[2]))

\* the result of a one-page document whose only image has exactly 150 DPI
C12_Witness ==
    \E c \in CmdIds :
        /\ ResultsOf(c) # {}
        /\ cmd[c].doc.numPages = 1
        /\ cmd[c].doc.pages[1].w = 432 /\ cmd[c].doc.pages[1].h = 576
        /\ SizedImages(c) = {<<1, 1>>}
        /\ cmd[c].doc.pages[1].ops.list[1].args.width = 900
        /\ cmd[c].doc.pages[1].ops.list[1].args.height = 1200
        /\ \A i \in ResultsOf(c) :
              /\ "low-resolution-images" \notin IdsOf(out[c][i])
              /\ "no-images-detected" \notin IdsOf(out[c][i])


\* the halves of the spreads of the finished booklet, as <<spread, "left" | "right">>
Halves == (1..Len(booklet.spreads)) \X {"left", "right"}

\* the logical index half h shows, and whether a page was drawn there
IdxOf(h) == IF h[2] = "left" THEN booklet.spreads[h[1]].leftIdx ELSE booklet.spreads[h[1]].rightIdx
DrawnAt(h) == IF h[2] = "left" THEN booklet.spreads[h[1]].leftDrawn ELSE booklet.spreads[h[1]].rightDrawn

\* C13: for every source page count n >= 1 the finished booklet places every
\* original page index 0..n-1 exactly once, and every logical index
\* 0..signatureSize-1 is used by exactly one half of one spread.
C13_EveryPageOnce ==
    (booklet.stage = "saved" /\ booklet.totalPages >= 1) =>
        /\ \A pg \in 0..(booklet.totalPages - 1) :
              Cardinality({h \in Halves : DrawnAt(h) /\ IdxOf(h) = pg}) = 1
        /\ \A ix \in 0..(signatureSize(booklet.totalPages) - 1) :
              Cardinality({h \in Halves : IdxOf(h) = ix}) = 1

\* C14: the spreads come in saddle-stitch order (N, 1), (2, N-1), (N-2, 3),
\* (4, N-3), ... (1-based, N the signature size): 0-based, spread i is
\* (N-1-i, i) for even i and (i, N-1-i) for odd i; for an 8-page document they
\* are (7,0), (1,6), (5,2), (3,4).
C14_SaddleStitchOrder ==
    booklet.stage = "saved" =>
        LET N == signatureSize(booklet.totalPages)
            pairs == [i \in 1..Len(booklet.spreads) |->
                         <<booklet.spreads[i].leftIdx, booklet.spreads[i].rightIdx>>]
        IN /\ Len(pairs) = N \div 2
           /\ \A i \in 0..(Len(pairs) - 1) :
                 pairs[i + 1] = IF i % 2 = 0 THEN <<N - 1 - i, i>> ELSE <<i, N - 1 - i>>
           /\ booklet.totalPages = 8 => pairs = << <<7, 0>>, <<1, 6>>, <<5, 2>>, <<3, 4>> >>


\* boxes a and b agree within 0.01 pt on each coordinate
BoxNear(a, b) ==
    /\ Abs(a.x - b.x) <= 10 /\ Abs(a.y - b.y) <= 10
    /\ Abs(a.width - b.width) <= 10 /\ Abs(a.height - b.height) <= 10

\* C15: after fixBleed with the default distance d = 3 mm (d * 72 / 25.4 pt),
\* for every page the trim box equals the page's original box, and the new
\* media box and the new bleed box are equal and are the original box expanded
\* by d on all four sides (within 0.01 pt), whatever the origin of the box.
C15_BleedBoxes ==
    bleedRun.stage \in {"once", "twice"} =>
        \A i \in 1..Len(bleedRun.input) :
            LET original == bleedRun.input[i].boxes.media
                fixed == bleedRun.first[i].boxes
            IN /\ fixed.trim = original
               /\ fixed.media = fixed.bleed
               /\ BoxNear(fixed.media, Grow(original, (DefaultBleedMm * 72 * 10000) \div 254))

\* C16: fixBleed is idempotent on the trim box: fixBleed applied to its own
\* output leaves every page's trim box as the first application set it.
C16_TrimIdempotent ==
    bleedRun.stage = "twice" =>
        \A i \in 1..Len(bleedRun.first) :
            bleedRun.second[i].boxes.trim = bleedRun.first[i].boxes.trim


\* ------------------------------------------------------------------ C17
\* the pixels of a canvas: the positions of their first bytes, counted from 0
PixelStarts(d) == {i \in 0..(Len(d) - 1) : i % 4 = 0}

\* the weighted sum 0.299 R + 0.587 G + 0.114 B of the pixel at i, in thousandths
WeightedSum(d, i) == 299 * d[i + 1] + 587 * d[i + 2] + 114 * d[i + 3]

\* C17 as stated, with round() the rounding of Math.round (a half goes up): after
\* the transform every pixel has R = G = B = round(0.299 R + 0.587 G + 0.114 B)
\* of its input and its input alpha, and a second application changes no
\* channel of any pixel.
C17_GrayRoundsHalfUp ==
    /\ canvas.stage \in {"once", "twice"} =>
          /\ Len(canvas.first) = Len(canvas.input)
          /\ \A i \in PixelStarts(canvas.input) :
                /\ \A k \in 1..3 :
                      canvas.first[i + k] = (WeightedSum(canvas.input, i) + 500) \div 1000
                /\ canvas.first[i + 4] = canvas.input[i + 4]
    /\ canvas.stage = "twice" => canvas.second = canvas.first

\* C17 amended: after the transform every pixel has R = G = B = an integer
\* within one half of 0.299 R + 0.587 G + 0.114 B of its input (at an exact half
\* either neighbour) and its input alpha, and a second application changes no
\* channel of any pixel.
C17_GrayNearest ==
    /\ canvas.stage \in {"once", "twice"} =>
          /\ Len(canvas.first) = Len(canvas.input)
          /\ \A i \in PixelStarts(canvas.input) :
                /\ \A k \in 1..3 :
                      /\ canvas.first[i + k] = canvas.first[i + 1]
                      /\ canvas.first[i + k] \in 0..255
                      /\ 1000 * canvas.first[i + k] - WeightedSum(canvas.input, i)
                            \in (0 - 500)..500
                /\ canvas.first[i + 4] = canvas.input[i + 4]
    /\ canvas.stage = "twice" => canvas.second = canvas.first

\* A canvas converted twice that holds a coloured pixel whose weighted sum
\* lies exactly between two integers, and a translucent pixel.
C17_Witness ==
    /\ canvas.stage = "twice"
    /\ \E i \in PixelStarts(canvas.input) :
          /\ WeightedSum(canvas.input, i) % 1000 = 500
          /\ canvas.input[i + 1] # canvas.input[i + 3]
    /\ \E i \in PixelStarts(canvas.input) : canvas.input[i + 4] # 255


\* ------------------------------------------------------------------ C18
\* the transformResult messages of command c
TransformResultsOf(c) ==
    {out[c][i] : i \in {j \in 1..Len(out[c]) : out[c][j].type = "transformResult"}}

\* name is stem plus suffix, stem being given without a trailing '.pdf' in any case
StemPlus(name, given, suffix) ==
    \E stem \in {given} \cup {SubSeq(given, 1, Len(given) - 1) : k \in 1..Len(given)} :
        /\ name = Append(stem, suffix)
        /\ \/ stem = given /\ \A e \in {".pdf", ".PDF", ".Pdf"} : given[Len(given)] # e
           \/ \E e \in {".pdf", ".PDF", ".Pdf"} : given = Append(stem, e)

\* the suffix C18 gives for a command: round(minDpi) with a half going up and
\* 150 when the message has none, 3 mm of bleed
SuffixClaimed(m) ==
    CASE m.type = "convertToGrayscale" -> "_grayscale.pdf"
      [] m.type = "upscaleLowResImages" ->
            "_upscaled_"
            \o ToString(((IF m.minDpi = NoMinDpi THEN 1500 ELSE m.minDpi) + 5) \div 10)
            \o "dpi.pdf"
      [] OTHER -> "_bleed_3mm.pdf"

\* C18: a transform pipeline leaves the caller's FileMeta (name, size, type) and
\* the caller's buffer as they were given, and the FileMeta it returns has the
\* input type, the byte length of the returned buffer as size, and the input
\* name without a trailing '.pdf' (any case) plus '_grayscale.pdf',
\* '_upscaled_<round(minDpi)>dpi.pdf' or '_bleed_<mm>mm.pdf'.
C18_TransformOutput ==
    \A c \in CmdIds :
        cmd[c].type \in TransformTypes =>
            \A m \in TransformResultsOf(c) :
                  /\ input[c].fileMeta = cmd[c].fileMeta
                  /\ ~input[c].detached
                  /\ m.fileMeta.type = cmd[c].fileMeta.type
                  /\ m.fileMeta.size = m.byteLength
                  /\ StemPlus(m.fileMeta.name, cmd[c].fileMeta.name, SuffixClaimed(cmd[c]))


\* ------------------------------------------------------------------ C19
\* page p with every sub-check that fails on it replaced by one that succeeds
\* and finds nothing: boxes with 3.5 mm of bleed, no annotation, no text, no
\* operator
WithoutFailed(p) ==
    [p EXCEPT !.boxes = IF p.boxes.ok THEN @
                        ELSE [ok |-> TRUE, media |-> Grow(A4Box, ThreeAndAHalfMm),
                              trim |-> A4Box, bleed |-> Grow(A4Box, ThreeAndAHalfMm)],
              !.annots = IF p.annots.ok THEN @ ELSE [ok |-> TRUE, list |-> <<>>],
              !.text = IF p.text.ok THEN @ ELSE [ok |-> TRUE, items |-> <<>>],
              !.ops = IF p.ops.ok THEN @ ELSE [ok |-> TRUE, list |-> <<>>]]

\* C19: in analyze no failure of a per-page sub-check (boxes, annotations,
\* fonts and text, operators) reaches the listener's catch, so none makes the
\* command end with analysisError; and a page of the loop leaves the
\* accumulators as the same page would with each failed sub-check finding
\* nothing, the other sub-checks of the page having run.
C19_SubCheckFailureContained ==
    /\ [](\A c \in CmdIds : \A i \in 1..Len(out[c]) :
             out[c][i].type = "analysisError" => out[c][i].message # "pdfLibDoc.getPage")
    /\ [][\A c \in CmdIds :
             (build = "current" /\ pc[c] = "a_page" /\ page'[c] = page[c] + 1) =>
                 acc'[c] = AnalyzePage(acc[c], WithoutFailed(cmd[c].doc.pages[page'[c]]),
                                       page'[c])]_vars


\* ------------------------------------------------------------------ C20
\* the analyze command c has ended at the load of its document by pdf.js: the
\* second load, by pdf-lib, was never started
LoadFailed(c) ==
    /\ cmd[c].type = "analyze" /\ pc[c] = "done"
    /\ \A i \in 1..Len(loads[c]) : loads[c][i].by # "pdf-lib"

\* the analyze command c has ended, its document loaded and has no page
ZeroPages(c) ==
    /\ cmd[c].type = "analyze" /\ pc[c] = "done" /\ cmd[c].doc.numPages = 0
    /\ \E i \in 1..Len(loads[c]) : loads[c][i].by = "pdf-lib"

\* the last message of c is an analysisResult whose issue list is a single
\* issue of severity error
EarlyResult(c) ==
    /\ Len(out[c]) > 0
    /\ out[c][Len(out[c])].type = "analysisResult"
    /\ Len(out[c][Len(out[c])].issues) = 1
    /\ out[c][Len(out[c])].issues[1].severity = ERROR

\* C20 as stated: an analyze command whose document fails to load, or has zero
\* pages, ends with an early analysisResult whose issue list is one
\* error-severity issue.
C20_StructuralFailure ==
    \A c \in CmdIds : (LoadFailed(c) \/ ZeroPages(c)) => EarlyResult(c)

\* C20 amended: an analyze command whose document has zero pages ends with an
\* early analysisResult whose issue list is one error-severity issue; one
\* whose document fails to load ends with analysisError after the first
\* progress message and posts no analysisResult.
C20_StructuralFailureAmended ==
    \A c \in CmdIds :
        /\ ZeroPages(c) => EarlyResult(c)
        /\ LoadFailed(c) =>
              /\ ResultsOf(c) = {}
              /\ Len(out[c]) = 2
              /\ out[c][1].type = "analysisProgress"
              /\ out[c][2].type = "analysisError"

\* an analyze command ended by a document that pdf.js could not load
C20_Witness == \E c \in CmdIds : LoadFailed(c) /\ Len(out[c]) > 0


\* ------------------------------------------------------------------ C23
\* the smallest multiple of 4 that is >= n
SmallestMultipleOf4(n) == CHOOSE m \in n..(n + 3) : m % 4 = 0

ConsumerUses(c) == {i \in 1..Len(loads[c]) : loads[c][i].by \in {"pdf.js", "pdf-lib"}}

\* C24: in an analyze run the source bytes are copied before the first consumer
\* is started, no two consumers are given the same buffer, and pdf-lib (the
\* box model) is given the copy only.
C24_BufferDuplicated ==
    \A c \in CmdIds :
        (cmd[c].type = "analyze" /\ build = "current") =>
            /\ \A i \in ConsumerUses(c) :
                  /\ \E j \in 1..(i - 1) : loads[c][j].by = "slice"
                  /\ loads[c][i].by = "pdf-lib" => loads[c][i].buffer = "copy"
            /\ \A i, j \in ConsumerUses(c) :
                  loads[c][i].buffer = loads[c][j].buffer => i = j

\* an analyze run in which both consumers have been started and pdf.js has
\* taken ownership of the buffer it was given
C24_Witness ==
    \E c \in CmdIds :
        /\ cmd[c].type = "analyze" /\ Cardinality(ConsumerUses(c)) = 2
        /\ input[c].detached


\* ------------------------------------------------------------------ C27
\* the sizes (tenths of a point) of the text runs on the sampled pages of
\* command c whose text was delivered: |fontSize|, or |transform size| when
\* fontSize is 0; only positive sizes count
RunSizes(c) ==
    UNION { { LET it == cmd[c].doc.pages[i].text.items[k]
              IN Abs(IF it.fontSize # 0 THEN it.fontSize ELSE it.tr) :
              k \in 1..Len(cmd[c].doc.pages[i].text.items) } :
            i \in { n \in 1..SampleCount(cmd[c].doc.numPages) : cmd[c].doc.pages[n].text.ok } }
    \ {0}

\* the issues of message m with that id
IssuesWithId(m, id) == {k \in 1..Len(m.issues) : m.issues[k].id = id}

\* C27: a run of size s is tiny if s < 6 pt and small if 6 <= s < 8 pt.  The
\* result has 'text-too-small' (a warning) exactly when a tiny run was seen, and
\* then no 'text-small'; it has 'text-small' (info) exactly when a small run was
\* seen and no tiny one.
C27_TextRulesExclusive ==
    \A c \in CmdIds : \A i \in ResultsOf(c) :
        cmd[c].doc.numPages >= 1 =>
            LET m == out[c][i]
                tiny == \E s \in RunSizes(c) : s < 60
                small == \E s \in RunSizes(c) : s >= 60 /\ s < 80
            IN /\ IssuesWithId(m, "text-too-small") # {} <=> tiny
               /\ IssuesWithId(m, "text-small") # {} <=> (small /\ ~tiny)
               /\ \A k \in IssuesWithId(m, "text-too-small") : m.issues[k].severity = WARNING
               /\ \A k \in IssuesWithId(m, "text-small") : m.issues[k].severity = INFO

\* a result for pages on which tiny runs and small runs were seen, a run of
\* exactly 6 pt among them
C27_Witness ==
    \E c \in CmdIds :
        /\ ResultsOf(c) # {}
        /\ \E s \in RunSizes(c) : s < 60
        /\ 60 \in RunSizes(c)


\* ------------------------------------------------------------------ C28
\* C28: every analysisResult has at least one issue and never the summary of an
\* empty issue list.  For a document with pages it has exactly one of
\* 'color-content-detected' and 'no-explicit-color-ops', the former exactly when
\* an RGB color operator was seen on a sampled page; for a document without
\* pages it has 'empty-document'.
C28_NeverEmpty ==
    \A c \in CmdIds : \A i \in ResultsOf(c) :
        LET m == out[c][i]
            rgbSeen == SampledWith(c, {"setFillRGBColor", "setStrokeRGBColor",
                                       "setFillRGBColorN", "setStrokeRGBColorN"}) # {}
        IN /\ Len(m.issues) >= 1
           /\ m.summary # "No issues found"
           /\ cmd[c].doc.numPages = 0 => IssuesWithId(m, "empty-document") # {}
           /\ cmd[c].doc.numPages >= 1 =>
                 /\ Cardinality(IssuesWithId(m, "color-content-detected")
                                \cup IssuesWithId(m, "no-explicit-color-ops")) = 1
                 /\ IssuesWithId(m, "color-content-detected") # {} <=> rgbSeen

\* the result of a document whose sampled pages hold a CMYK operator and no RGB one
C28_Witness ==
    \E c \in CmdIds : \E i \in ResultsOf(c) :
        /\ SampledWith(c, {"setFillCMYKColor", "setStrokeCMYKColor"}) # {}
        /\ SampledWith(c, {"setFillRGBColor", "setStrokeRGBColor"}) = {}
        /\ IssuesWithId(out[c][i], "no-explicit-color-ops") # {}


\* ------------------------------------------------------------------ C22
\* C22: for a document with n >= 1 pages the pages list of the result has n
\* entries numbered 1..n in order; the page loop walks at most the first 10
\* pages, and every page numbered above min(n, 10) has issuesCount = 0.
C22_PagesList ==
    \A c \in CmdIds :
        LET n == cmd[c].doc.numPages
        IN (cmd[c].type = "analyze" /\ n >= 1) =>
              /\ page[c] <= Min(n, 10)
              /\ \A i \in ResultsOf(c) :
                    LET pages == out[c][i].pages
                    IN /\ Len(pages) = n
                       /\ \A k \in 1..n : pages[k].pageNumber = k
                       /\ \A k \in 1..n : k > Min(n, 10) => pages[k].issuesCount = 0

\* the result of an 11-page document whose page 11 alone is not a plain page:
\* 11 entries, the last with no issue
C22_Witness ==
    \E c \in CmdIds : \E i \in ResultsOf(c) :
        /\ cmd[c].doc.numPages = 11
        /\ cmd[c].doc.pages[11] # cmd[c].doc.pages[1]
        /\ \A k \in 1..10 : cmd[c].doc.pages[k] = cmd[c].doc.pages[1]
        /\ Len(out[c][i].pages) = 11
        /\ out[c][i].pages[11].issuesCount = 0


\* ------------------------------------------------------------------ C30
RECURSIVE SumOf(_)
\* the sum of a sequence of numbers
SumOf(s) == IF s = <<>> THEN 0 ELSE Head(s) + SumOf(Tail(s))

\* the issues of message m with that severity
IssuesOfSeverity(m, sev) == {k \in 1..Len(m.issues) : m.issues[k].severity = sev}

\* C30: in the result of a document with n >= 1 pages every issue's page lies in
\* 1..min(n, 10); the issuesCount of the pages add up to the number of issues;
\* the errors, warnings and info of categorySummaries add up to the numbers of
\* error, warning and info issues; and categorySummaries has one entry for each
\* category that has an issue, and no other.
C30_CountsAddUp ==
    \A c \in CmdIds : \A i \in ResultsOf(c) :
        LET m == out[c][i]
            n == cmd[c].doc.numPages
            cs == m.categorySummaries
        IN n >= 1 =>
             /\ \A k \in 1..Len(m.issues) : m.issues[k].page \in 1..Min(n, 10)
             /\ SumOf([k \in 1..Len(m.pages) |-> m.pages[k].issuesCount]) = Len(m.issues)
             /\ SumOf([k \in 1..Len(cs) |-> cs[k].errors])
                   = Cardinality(IssuesOfSeverity(m, ERROR))
             /\ SumOf([k \in 1..Len(cs) |-> cs[k].warnings])
                   = Cardinality(IssuesOfSeverity(m, WARNING))
             /\ SumOf([k \in 1..Len(cs) |-> cs[k].info])
                   = Cardinality(IssuesOfSeverity(m, INFO))
             /\ {cs[k].category : k \in 1..Len(cs)}
                   = {m.issues[k].category : k \in 1..Len(m.issues)}
             /\ \A j, k \in 1..Len(cs) : cs[j].category = cs[k].category => j = k

\* the result of an 11-page document with issues on two pages other than page 1,
\* two issues of one category among them
C30_Witness ==
    \E c \in CmdIds : \E i \in ResultsOf(c) :
        LET m == out[c][i]
        IN /\ cmd[c].doc.numPages = 11
           /\ Cardinality({m.issues[k].page : k \in 1..Len(m.issues)} \ {1}) >= 2
           /\ \E j, k \in 1..Len(m.issues) : j # k /\ m.issues[j].category = m.issues[k].category
           /\ Len(m.categorySummaries) >= 3


\* ------------------------------------------------------------------ C25
\* the rules whose issue carries a first-page pointer
PointerRules ==
    {"color-content-detected", "transparency-detected", "missing-bleed-info",
     "insufficient-bleed", "text-too-small", "text-small", "hairline-strokes",
     "overprint-detected", "low-resolution-images", "annotations-present",
     "form-fields-present", "multimedia-content"}

\* the trigger of rule id is observed on page p (lib: pdf-lib loaded the document)
Triggered(id, p, lib) ==
    LET t == p.boxes.trim
        b == p.boxes.bleed
        gaps == {t.x - b.x, t.y - b.y, (b.x + b.width) - (t.x + t.width),
                 (b.y + b.height) - (t.y + t.height)}
        noBleed == \A g \in gaps : g > -100 /\ g < 100
        sizes == {IF it.fontSize # 0 THEN Abs(it.fontSize) ELSE Abs(it.tr) :
                    it \in {p.text.items[k] : k \in 1..Len(p.text.items)}}
        ops == {p.ops.list[k] : k \in 1..Len(p.ops.list)}
        subtypes == {p.annots.list[k] : k \in 1..Len(p.annots.list)}
    IN CASE id = "color-content-detected" ->
              p.ops.ok /\ \E o \in ops : o.fn \in rgbOps
         [] id = "transparency-detected" ->
              p.ops.ok /\ \E o \in ops : o.fn \in transparencyOps
         [] id = "missing-bleed-info" ->
              IF lib THEN p.boxes.ok /\ noBleed ELSE p.info = "none"
         [] id = "insufficient-bleed" ->
              lib /\ p.boxes.ok /\ ~noBleed /\ \E g \in gaps : g * 254 < 2900 * 720
         [] id = "text-too-small" ->
              p.text.ok /\ \E s \in sizes : s > 0 /\ s < 60
         [] id = "text-small" ->
              p.text.ok /\ \E s \in sizes : s >= 60 /\ s < 80
         [] id = "hairline-strokes" ->
              p.ops.ok /\ \E o \in ops : o.fn = "setLineWidth" /\ o.args.kind = "width"
                                         /\ o.args.w > 0 /\ o.args.w < 250
         [] id = "overprint-detected" ->
              p.ops.ok /\ \E o \in ops : o.fn = "setGState" /\ o.args.kind = "gstate"
                                         /\ (o.args.op = TRUE \/ o.args.opm = 1)
         [] id = "low-resolution-images" ->
              p.ops.ok /\ \E o \in ops :
                  /\ o.fn \in imageOps /\ o.args.kind = "image"
                  /\ o.args.width > 0 /\ o.args.height > 0
                  /\ (o.args.width * 72 < 150 * p.w \/ o.args.height * 72 < 150 * p.h)
         [] id = "annotations-present" ->
              p.annots.ok /\ \E a \in subtypes : a \in markupSubtypes
         [] id = "form-fields-present" ->
              p.annots.ok /\ "Widget" \in subtypes
         [] id = "multimedia-content" ->
              p.annots.ok /\ \E a \in subtypes : a \in multimediaSubtypes

\* the sampled pages of command c on which the trigger of rule id is observed
TriggerPages(c, id) ==
    {i \in 1..Min(cmd[c].doc.numPages, 10) :
        Triggered(id, cmd[c].doc.pages[i], cmd[c].doc.libLoad)}

\* the first-page pointers of an accumulator
PointersOf(a) ==
    {a.firstColorPage, a.firstTransparencyPage, a.missingBleedPage, a.insufficientBleedPage,
     a.firstTinyTextPage, a.firstSmallTextPage, a.firstHairlinePage, a.firstOverprintPage,
     a.firstLowResPage, a.firstAnnotationPage, a.firstFormPage, a.firstMultimediaPage}

\* C25: the sampled pages are processed in ascending order, one page fully
\* before the next: the page counter advances by one page at a time and no
\* pointer names a page that has not been processed.  For every rule that keeps
\* a first-page pointer, the page of the emitted issue is the lowest sampled
\* page on which the rule's trigger was observed.
C25_FirstPagePointers ==
    /\ [][\A c \in CmdIds :
             page'[c] # page[c] => (page'[c] = page[c] + 1 \/ page'[c] = 0)]_vars
    /\ [](\A c \in CmdIds :
             /\ cmd[c].type = "analyze" => \A q \in PointersOf(acc[c]) : q <= page[c]
             /\ \A i \in ResultsOf(c) :
                  LET m == out[c][i]
                  IN \A k \in 1..Len(m.issues) :
                        m.issues[k].id \in PointerRules =>
                           /\ m.issues[k].page \in TriggerPages(c, m.issues[k].id)
                           /\ \A j \in TriggerPages(c, m.issues[k].id) :
                                 m.issues[k].page <= j)

\* a result whose 'hairline-strokes' issue names a page after page 1, the
\* trigger being observed on a later sampled page too
C25_Witness ==
    \E c \in CmdIds : \E i \in ResultsOf(c) :
        LET m == out[c][i]
        IN \E h \in IssuesWithId(m, "hairline-strokes") :
              /\ m.issues[h].page > 1
              /\ \E j \in TriggerPages(c, "hairline-strokes") : j > m.issues[h].page


\* ------------------------------------------------------------------ C26
RECURSIVE PagesAlone(_, _, _, _)
\* the accumulators after pages i..n of a document analysed with no other
\* command in flight, starting from a
PagesAlone(a, pages, i, n) ==
    IF i > n THEN a ELSE PagesAlone(AnalyzePage(a, pages[i], i), pages, i + 1, n)

\* the result of document d analysed alone
ResultAlone(d, fileMeta) ==
    IF d.numPages = 0
    THEN buildResult(<<Issue("empty-document", 1, "metadata", ERROR)>>, 0, fileMeta)
    ELSE buildResult(
           GenerateIssues(
             PagesAlone(LayerCheck([InitAcc EXCEPT !.pdfLibDoc = d.libLoad], d.layers),
                        d.pages, 1, Min(d.numPages, 10)),
             fileMeta),
           d.numPages, fileMeta)

\* C26: with two analyze commands in flight whose steps interleave, each
\* analysisResult is the result its document yields when analysed alone, and a
\* step changes the accumulators of one run only, the run that takes it.
C26_RunsPrivate ==
    /\ [](\A c \in CmdIds : \A i \in ResultsOf(c) :
             out[c][i] = AnalysisResult(ResultAlone(cmd[c].doc, cmd[c].fileMeta)))
    /\ [][\A c \in CmdIds :
             acc'[c] # acc[c] =>
                /\ pc[c] \in {"a_libload", "a_layers", "a_page"}
                /\ \A d \in CmdIds \ {c} : acc'[d] = acc[d] /\ pc'[d] = pc[d]]_vars

\* the second run has posted its result while the first, for another document,
\* is suspended inside its page loop with other accumulators
C26_Witness ==
    /\ pc[1] = "a_page" /\ page[1] = 1 /\ cmd[1].doc.numPages = 2
    /\ ResultsOf(2) # {}
    /\ cmd[2].doc.numPages = 2
    /\ cmd[2].doc # cmd[1].doc
    /\ acc[2] # acc[1]
    /\ acc[2].firstColorPage # acc[1].firstColorPage


\* ------------------------------------------------------------------ C21
\* the pixels of a raster: <<r, g, b, a>> of pixel p
PixelsOf(img) ==
    [p \in 1..(Len(img.data) \div 4) |-> SubSeq(img.data, 4 * p - 3, 4 * p)]

\* the estimated ink of a pixel, in percent: (c + m + y + k) * 400 rounded, with
\* k = 1 - max, c = (max - r) / max, for an opaque pixel; a transparent one is paper
InkOf(px) ==
    LET mx == Max(px[1], Max(px[2], px[3]))
    IN IF px[4] = 0 THEN 0
       ELSE IF mx = 0 THEN 400
       ELSE (800 * ((3 * mx - px[1] - px[2] - px[3]) * 255 + (255 - mx) * mx) + mx * 255)
               \div (2 * mx * 255)

\* C21: the heatmap of a page raster has width * height values, each in 0..255
\* and equal to min(255, ink * 255 / 400) for the estimated ink of its pixel
\* (the fraction dropped), and maxTac, the greatest estimated ink of a pixel,
\* lies in 0..400.
C21_HeatmapRange ==
    (env = "heat" /\ canvas.stage = "once") =>
        LET img == canvas.input
            h == canvas.first
            px == PixelsOf(img)
        IN /\ Len(h.values) = img.width * img.height
           /\ \A p \in 1..Len(h.values) :
                 /\ h.values[p] \in 0..255
                 /\ h.values[p] = Min(255, (InkOf(px[p]) * 255) \div 400)
           /\ \A p \in 1..Len(px) : h.maxTac >= InkOf(px[p])
           /\ \E p \in 1..Len(px) : h.maxTac = InkOf(px[p])
           /\ h.maxTac >= 0
           /\ h.maxTac <= 400

\* the same without the upper bound of maxTac
C21_HeatmapValues ==
    (env = "heat" /\ canvas.stage = "once") =>
        LET img == canvas.input
            h == canvas.first
            px == PixelsOf(img)
        IN /\ Len(h.values) = img.width * img.height
           /\ \A p \in 1..Len(h.values) :
                 /\ h.values[p] \in 0..255
                 /\ h.values[p] = Min(255, (InkOf(px[p]) * 255) \div 400)
           /\ \A p \in 1..Len(px) : h.maxTac >= InkOf(px[p])
           /\ \E p \in 1..Len(px) : h.maxTac = InkOf(px[p])
           /\ h.maxTac >= 0


\* ------------------------------------------------------------------ C29
\* C29: the analysis of a document fixBleed has returned, when it has a page,
\* reports neither 'missing-bleed-info' nor 'insufficient-bleed': on every
\* sampled page the bleed box exceeds the trim box by 3 mm (8.504 pt, at least
\* 2.9 mm) on each of the four sides.
C29_FixThenCheck ==
    env = "recheck" =>
        \A c \in CmdIds :
            (cmd[c].type = "analyze" /\ cmd[c].doc.numPages >= 1) =>
                /\ \A i \in 1..Min(cmd[c].doc.numPages, 10) :
                      LET t == cmd[c].doc.pages[i].boxes.trim
                          b == cmd[c].doc.pages[i].boxes.bleed
                      IN /\ cmd[c].doc.pages[i].boxes.ok
                         /\ t.x - b.x = 8504 /\ t.y - b.y = 8504
                         /\ (b.x + b.width) - (t.x + t.width) = 8504
                         /\ (b.y + b.height) - (t.y + t.height) = 8504
                         /\ 8504 * 254 >= 2900 * 720
                /\ \A i \in ResultsOf(c) :
                      /\ IssuesWithId(out[c][i], "missing-bleed-info") = {}
                      /\ IssuesWithId(out[c][i], "insufficient-bleed") = {}

\* the result of analysing what fixBleed returned for a document of two pages,
\* the first with its media box at (10, 20) pt and no bleed
C29_Witness ==
    /\ env = "recheck"
    /\ cmd[1].doc.numPages = 2
    /\ cmd[1].doc.pages[1].boxes.media = Box(10000, 20000, 595000, 842000)
    /\ cmd[1].doc.pages[1].boxes.bleed = cmd[1].doc.pages[1].boxes.trim
    /\ cmd[2].type = "analyze"
    /\ cmd[2].doc.numPages = 2
    /\ \E i \in ResultsOf(2) : Len(out[2][i].issues) >= 1

====
